---- MODULE Spec2Model ----
(***************************************************************************)
(* A model of the inference-server core of easydk: the batching cache      *)
(* (CacheBase / CacheDynamic / CacheStatic), the TaskNode pipeline, the    *)
(* RequestSync / Request entry points and the InferServer facade.          *)
(***************************************************************************)
EXTENDS Integers, Sequences, FiniteSets, TLC

\* ------------------------------------------------------------------ bounds
BatchSize == 2
Capacity == 1
MaxReq == 3
NumNodes == 2
EngineNum == 1
NumWorkers == 2
TimeoutMs == 1
NumThreads == 2
MaxSess == 3
CpuCores == 1
MaxPriority == 1
MaxErrors == 1

MaxItems == BatchSize + 1
Requests == 1..MaxReq
Engines == 1..EngineNum
Nodes == 1..NumNodes
Workers == 1..NumWorkers
Timeouts == {0, TimeoutMs}
Statuses == {"SUCCESS", "ERROR_BACKEND"}
Priorities == 0..MaxPriority

VARIABLES
  strategy,    \* BatchStrategy of the executor's cache: "STATIC" or "DYNAMIC"
  sync_link,   \* Session::IsSyncLink(): the session was created without observer
  session_priority,  \* SessionDesc::priority of the session that submits each request
  running_,    \* CacheBase::running_
  cache_,      \* CacheBase::cache_, the list of queued packages
  cache_cond_, \* CacheBase::cache_cond_: the threads it has notified that have not run yet
  batcher_,    \* items held by CacheDynamic::batcher_
  observer,    \* the session was created with an Observer
  stop_pc,     \* position of the thread calling Cache::Stop
  ctrl,        \* the RequestControl of each request
  cl,          \* the client thread of each request (Request / RequestSync)
  disp,        \* the executor's dispatch thread
  tp_,         \* the thread pool's task queue
  task_num_,   \* Engine::task_num_ of each engine
  proc_lock,   \* holder of each processor's lock (0 = free)
  wk,          \* the thread-pool workers
  executor_map_,  \* InferServerPrivate::executor_map_: executor name -> Executor (0 = no entry)
  executors,      \* every Executor allocated so far
  sessions,       \* every Session allocated so far
  th,             \* the threads calling CreateSession / DestroySession
  tp_size,        \* tp_->Size()
  tp_exiting,     \* workers a shrinking Resize told to exit, still blocked on the queue
  executor_map_mutex_,  \* the thread holding InferServerPrivate::executor_map_mutex_ (0 = free)
  tp_mutex_,            \* the thread holding InferServerPrivate::tp_mutex_ (0 = free)
  aborted,        \* the process ended: a failed CHECK or a fault
  handle_,        \* DecodeHandler::handle_ is not null
  send_eos_,      \* DecodeHandler::send_eos_
  got_eos_,       \* DecodeHandler::got_eos_
  status_,        \* DecodeHandler::status_
  event_queue_,   \* DecodeHandler::event_queue_
  eos_mtx_,       \* the thread holding DecodeHandler::eos_mtx_ ("free" = none)
  event_cond_,    \* event_cond_ has notified the blocked event loop
  eos_cond_,      \* eos_cond_ has notified the blocked destructor
  dth,            \* the threads in DecodeHandler code: the owner's and the event loop
  codec,          \* the cncodec decoder behind handle_
  eos_called,     \* invocations of attr_.eos_callback
  dec_fault       \* the decoder's process ended: std::terminate or a fault

pipe_vars == <<strategy, observer, sync_link, session_priority, running_, cache_, cache_cond_, batcher_,
               stop_pc, ctrl, cl,
               disp, tp_, task_num_, proc_lock, wk>>

facade_vars == <<executor_map_, executors, sessions, th, tp_size, tp_exiting, aborted,
                 executor_map_mutex_, tp_mutex_>>

dec_vars == <<handle_, send_eos_, got_eos_, status_, event_queue_, eos_mtx_, event_cond_,
              eos_cond_, dth, codec, eos_called, dec_fault>>

\* ----------------------------------------------------------------- helpers
Min(a, b) == IF a < b THEN a ELSE b

NoPack == [data |-> <<>>, descs |-> <<>>, data_num |-> 0, priority |-> 0]

\* new Package: the priority a default-constructed package carries
DefaultPriority == 0

\* Priority::Get(bias) of the session's base priority 0: the pool runs the
\* lowest value first and Get(-request_id) sorts older requests ahead of newer
\* ones, so the value falls as the bias grows; and Priority::Next
PriorityGet(bias) == -bias
PriorityNext(p) == p + 1

\* the items of a client package: data.size() == n, each with its TaskDesc
InputData(r, n) == [i \in 1..n |-> [rid |-> r, idx |-> i - 1, desc |-> TRUE]]

IsDiscarded(c, r) == c[r].discarded

\* Pop's check of the head package: some item's control is discarded
HasDiscardedFirstOnly(pack, c) == IsDiscarded(c, pack.data[1].rid)
HasDiscarded(pack, c) ==
  \E i \in 1..Len(pack.data) : IsDiscarded(c, pack.data[i].rid)

\* MoveDescToPackage: descs leave the items and enter pack->descs
MoveDescToPackage(pack) ==
  [pack EXCEPT
     !.descs = pack.descs \o
               [i \in 1..Len(pack.data) |->
                  [rid |-> pack.data[i].rid, index |-> pack.data[i].idx]],
     !.data = [i \in 1..Len(pack.data) |-> [pack.data[i] EXCEPT !.desc = FALSE]]]

\* CacheStatic::CopyDescToPackage
CopyDescToPackage(data) ==
  [i \in 1..Len(data) |-> [rid |-> data[i].rid, index |-> data[i].idx]]

\* CacheStatic::CopyDescToPackageContinuous: data_num descs sharing data[0]'s ctrl
CopyDescToPackageContinuous(data, data_num) ==
  [i \in 1..data_num |-> [rid |-> data[1].rid, index |-> i - 1]]

\* one turn of CacheStatic::Enqueue's loop that closes a package: the next
\* (at most BatchSize) items of the input still to be moved
StaticPackageUnsplit(rest, data_size, in_data_num, request_id) ==
  [data |-> rest, descs |-> CopyDescToPackage(rest), data_num |-> Len(rest),
   priority |-> PriorityGet(-request_id)]
StaticPackage(rest, data_size, in_data_num, request_id) ==
  LET batch_idx == Min(BatchSize, Len(rest))
      data == SubSeq(rest, 1, batch_idx)
      data_num == IF data_size = 1 THEN in_data_num ELSE batch_idx
  IN [data |-> data,
      descs |-> IF data_size = 1 /\ in_data_num # 1
                THEN CopyDescToPackageContinuous(data, data_num)
                ELSE CopyDescToPackage(data),
      data_num |-> data_num,
      priority |-> PriorityGet(-request_id)]

\* the sink of CacheDynamic's batcher: a batch becomes one package
BatchPackage(data, c) ==
  [data |-> data, descs |-> <<>>, data_num |-> Len(data),
   priority |-> PriorityGet(-c[data[1].rid].request_id)]

\* CacheStatic::PreparePackage / CacheDynamic::PreparePackage
PreparePackageAsQueued(pack, strat) == pack
PreparePackage(pack, strat) ==
  IF strat = "DYNAMIC"
  THEN MoveDescToPackage(pack)
  ELSE [pack EXCEPT !.data = [i \in 1..Len(pack.data) |->
                                [pack.data[i] EXCEPT !.desc = FALSE]]]

RECURSIVE Flatten(_)
Flatten(c) == IF c = <<>> THEN <<>> ELSE Head(c).data \o Flatten(Tail(c))

RECURSIVE Rebatch(_)
Rebatch(items) ==
  IF items = <<>> THEN <<>>
  ELSE LET n == Min(BatchSize, Len(items))
       IN <<[data |-> SubSeq(items, 1, n), descs |-> <<>>, data_num |-> n,
             priority |-> DefaultPriority]>>
          \o Rebatch(SubSeq(items, n + 1, Len(items)))

\* ClearDiscard's test of an item: kept unless its control is discarded
SelectEvery(items, c) == items
SelectLive(items, c) == SelectSeq(items, LAMBDA it : ~IsDiscarded(c, it.rid))

\* CacheDynamic::ClearDiscard: the queue after the sweep
DynamicClearDiscard(c_, c) == Rebatch(SelectLive(Flatten(c_), c))

\* CacheStatic::ClearDiscard: packages whose first item is live survive
StaticClearDiscardHeadOnly(c_, c) == Tail(c_)
StaticClearDiscard(c_, c) ==
  SelectSeq(c_, LAMBDA p : ~IsDiscarded(c, p.data[1].rid))

ClearDiscard(c_, c, strat) ==
  IF strat = "DYNAMIC" THEN DynamicClearDiscard(c_, c) ELSE StaticClearDiscard(c_, c)

\* number of ProcessFailed(SUCCESS) calls the sweep makes on request r
RECURSIVE CountItems(_, _)
CountItems(items, r) ==
  IF items = <<>> THEN 0
  ELSE (IF Head(items).rid = r THEN 1 ELSE 0) + CountItems(Tail(items), r)

SweepReports(c_, c, strat, r) ==
  IF strat = "DYNAMIC"
  THEN IF IsDiscarded(c, r) THEN CountItems(Flatten(c_), r) ELSE 0
  ELSE CountItems(Flatten(SelectSeq(c_, LAMBDA p : IsDiscarded(c, p.data[1].rid))), r)

\* RequestControl::ProcessDone / ProcessFailed, n calls with status s on one
\* control: wait_num counts the reports still due and stays at zero once the
\* control is complete
Report(rc, n, s) ==
  [rc EXCEPT !.wait_num = IF n < @ THEN @ - n ELSE 0,
             !.status = IF s # "SUCCESS" /\ rc.wait_num > 0 /\ n > 0
                        THEN s ELSE rc.status]

\* a result slot of a control: empty, the result of an input item, or whatever
\* a read past the end of pack->data produced
EmptySlot == [state |-> "empty", rid |-> 0, idx |-> 0]
ItemSlot(item) == [state |-> "item", rid |-> item.rid, idx |-> item.idx]
GarbageSlot == [state |-> "garbage", rid |-> 0, idx |-> 0]

\* RequestControl::ProcessDone(SUCCESS, output, index): the result is kept in
\* the slot of its index, unless the control is already complete
ProcessDone(rc, slot, index) ==
  [Report(rc, 1, "SUCCESS") EXCEPT
     !.output = IF rc.wait_num > 0 /\ index + 1 \in 1..Len(@)
                THEN [@ EXCEPT ![index + 1] = slot] ELSE @]

\* what reading pack->data[idx] gives at the tail: the item, or past the end of
\* the vector undefined behaviour, a fault or some value
TailData(pack, idx) ==
  IF idx <= Len(pack.data) THEN {ItemSlot(pack.data[idx])}
  ELSE {[state |-> "fault", rid |-> 0, idx |-> 0], GarbageSlot}

\* RequestControl: the report that completes the control answers the request
\* unless the control is discarded
Completes(rc) == rc.wait_num = 1
Responds(rc) == Completes(rc) /\ ~rc.discarded

\* the items a package carries, as (request, index) pairs
ItemsOf(pack) == {<<pack.data[i].rid, pack.data[i].idx>> : i \in 1..Len(pack.data)}

\* PriorityThreadPool: the task to run next, lowest priority value first and
\* first come first served among equals
BestTask(q) ==
  CHOOSE i \in 1..Len(q) :
    /\ \A j \in 1..Len(q) : q[i].pack.priority <= q[j].pack.priority
    /\ \A j \in 1..(i - 1) : q[j].pack.priority > q[i].pack.priority

RemoveAt(q, i) == SubSeq(q, 1, i - 1) \o SubSeq(q, i + 1, Len(q))

\* Executor: the engine with the fewest tasks, lowest index first
IdleEngine(tn) ==
  CHOOSE e \in Engines :
    /\ \A f \in Engines : tn[e] <= tn[f]
    /\ \A f \in 1..(e - 1) : tn[f] > tn[e]


\* ------------------------------------------------------------------- state
NoCtrl == [alloc |-> FALSE, request_id |-> 0, wait_num |-> 0,
           status |-> "SUCCESS", discarded |-> FALSE, fired |-> 0, done |-> FALSE,
           output |-> <<>>]

IdleClient == [pc |-> "idle", after |-> 0, api |-> "none", timeout |-> 0, rest |-> <<>>, data_size |-> 0,
               data_num |-> 0, ret |-> "none", status |-> "NONE", how |-> "none",
               dipped |-> FALSE, early |-> FALSE, late |-> FALSE]

\* the call returns: its locals are gone, its result and *status stay
Return(c, ret, how) ==
  [c EXCEPT !.pc = "returned", !.ret = ret, !.how = how, !.timeout = 0,
            !.rest = <<>>, !.data_size = 0, !.data_num = 0]

IdleWorker == [pc |-> "idle", pack |-> NoPack, eng |-> 1, node |-> 1,
               s |-> "SUCCESS", idx |-> 1, cb |-> 1, back |-> "idle"]

\* a request that is never made
NoClient == [IdleClient EXCEPT !.pc = "off"]

\* the callers of the requests: one thread that makes them one after the other
\* (each after the request before it returned), or a thread for each request;
\* the last request is not made
ClientsOf(one_thread) ==
  [r \in Requests |-> IF r = MaxReq THEN NoClient
                      ELSE [IdleClient EXCEPT !.after = IF one_thread THEN r - 1 ELSE 0]]

\* one thread makes the first request, and when it has returned a thread for
\* each of the others makes it
ProducersBehindFirst ==
  [r \in Requests |-> [IdleClient EXCEPT !.after = IF r = 1 THEN 0 ELSE 1]]

\* the dispatch thread as a waiter on cache_cond_ (the clients are their requests)
DispatchThread == 0

\* the threads blocked in a wait on cache_cond_
Waiting(c, d) ==
  {r \in Requests : c[r].pc = "wf_wait"} \cup (IF d.pc = "wait" THEN {DispatchThread} ELSE {})

\* cache_cond_.notify_one(): one of the threads blocked in a wait, whichever,
\* is unblocked; cache_cond_.notify_all(): they all are
NotifyOne(notified, waiting) ==
  IF waiting \ notified = {} THEN {notified}
  ELSE {notified \cup {w} : w \in waiting \ notified}
NotifyAll(notified, waiting) == notified \cup waiting

\* a PriorityThreadPool of n running workers
PoolOf(n) == [k \in Workers |-> IF k <= n THEN IdleWorker
                                         ELSE [IdleWorker EXCEPT !.pc = "off"]]

\* CreateSession: the session is a sync link when it gets no Observer
SyncLink(obs) == ~obs

InitPipe(pool) ==
  /\ strategy \in {"STATIC", "DYNAMIC"}
  /\ observer \in BOOLEAN
  /\ sync_link = SyncLink(observer)
  /\ session_priority \in [Requests -> Priorities]
  /\ running_ = TRUE
  /\ cache_ = <<>>
  /\ cache_cond_ = {}
  /\ batcher_ = <<>>
  /\ stop_pc = "idle"
  /\ ctrl = [r \in Requests |-> NoCtrl]
  /\ cl \in {ClientsOf(TRUE), ClientsOf(FALSE), ProducersBehindFirst}
  /\ \A r \in Requests : cl[r].pc = "off" => session_priority[r] = 0
  /\ disp = [pc |-> "pop", pack |-> NoPack]
  /\ tp_ = <<>>
  /\ task_num_ = [e \in Engines |-> 0]
  /\ proc_lock = [e \in Engines |-> [n \in Nodes |-> 0]]
  /\ wk = PoolOf(pool)

\* cache_mutex_ is not held by a Pop that is between the test of its wait's
\* predicate and the block
CacheMutexFree(d) == d.pc # "about_to_wait"

\* -------------------------------------------------- CacheBase::WaitIfFull
\* the predicate of WaitIfFull's waits, negated: the cache is at capacity
CacheFull(c_) == Len(c_) >= Capacity

\* wait_for gives up (returns false) only with the predicate still false
WaitForExpiresAnyway(c_) == TRUE
WaitForExpires(c_) == CacheFull(c_)

\* the two request calls of the facade
Apis == {"Request", "RequestSync"}

\* Request returns false on a sync link, RequestSync on any other session
ApiNeverRefused(api, sync) == FALSE
ApiRefused(api, sync) == IF api = "Request" THEN sync ELSE ~sync

\* Request / RequestSync up to WaitIfCacheFull's first look at the cache
Call(r) ==
  /\ cl[r].pc = "idle"
  /\ IF cl[r].after = 0 THEN TRUE ELSE cl[cl[r].after].pc = "returned"
  /\ \E api \in Apis, to \in Timeouts, n \in 1..MaxItems, cont \in BOOLEAN :
       /\ cont => (strategy = "STATIC" /\ n > 1)
       /\ cl' = [cl EXCEPT ![r] =
                   IF ApiRefused(api, sync_link)
                   THEN [Return(@, "false", "refused") EXCEPT !.api = api]
                   ELSE
                   [@ EXCEPT !.api = api,
                             !.timeout = to,
                             !.rest = InputData(r, IF cont THEN 1 ELSE n),
                             !.data_size = IF cont THEN 1 ELSE n,
                             !.data_num = n,
                             !.pc = IF CacheFull(cache_) THEN "wf_wait" ELSE "wf_true"]]
  /\ UNCHANGED <<session_priority, facade_vars, dec_vars, cache_cond_, strategy, observer, sync_link, running_, cache_, batcher_, stop_pc, ctrl,
                 disp, tp_, task_num_, proc_lock, wk>>

\* the wait in WaitIfFull ends with the cache below capacity, on a
\* notification or a spurious wake-up
WaitIfFullWake(r) ==
  /\ cl[r].pc = "wf_wait"
  /\ ~CacheFull(cache_)
  /\ cache_cond_' = cache_cond_ \ {r}
  /\ cl' = [cl EXCEPT ![r] = [@ EXCEPT !.pc = "wf_true", !.dipped = FALSE]]
  /\ UNCHANGED <<session_priority, facade_vars, dec_vars, strategy, observer, sync_link, running_, cache_, batcher_, stop_pc, ctrl,
                 disp, tp_, task_num_, proc_lock, wk>>

\* wait_for times out: WaitIfFull returns false, Request returns false and
\* RequestSync sets *status = TIMEOUT and returns false
WaitIfFullTimeout(r) ==
  /\ cl[r].pc = "wf_wait"
  /\ cl[r].timeout > 0
  /\ WaitForExpires(cache_)
  /\ cache_cond_' = cache_cond_ \ {r}
  /\ cl' = [cl EXCEPT ![r] =
              [Return(@, "false", IF CacheFull(cache_) THEN "busy" ELSE "busy_not_full")
                 EXCEPT !.status = IF sync_link THEN "TIMEOUT" ELSE @,
                        !.timeout = cl[r].timeout]]
  /\ UNCHANGED <<session_priority, facade_vars, dec_vars, strategy, observer, sync_link, running_, cache_, batcher_, stop_pc, ctrl,
                 disp, tp_, task_num_, proc_lock, wk>>

\* RequestSync's check of the time left, then Session::Send up to Cache::Push's
\* test of Running()
RemainingTooShort(timeout, elapsed) == timeout > 0 /\ timeout - elapsed < 1

Send(r) ==
  /\ cl[r].pc = "wf_true"
  /\ \E elapsed \in 0..cl[r].timeout :
       IF sync_link /\ RemainingTooShort(cl[r].timeout, elapsed)
       THEN /\ cl' = [cl EXCEPT ![r] =
                        [Return(@, "false", "short") EXCEPT !.status = "TIMEOUT"]]
            /\ ctrl' = ctrl
       ELSE IF ~running_
       THEN /\ cl' = [cl EXCEPT ![r] = Return(@, "false", "stopped")]
            /\ ctrl' = ctrl
       ELSE /\ cl' = [cl EXCEPT ![r] =
                        [@ EXCEPT !.pc = "enqueue",
                                  !.timeout = IF sync_link /\ @ > 0
                                              THEN @ - elapsed ELSE @]]
            /\ ctrl' = [ctrl EXCEPT ![r] =
                          [@ EXCEPT !.alloc = TRUE,
                                    !.request_id =
                                       Cardinality({q \in Requests : ctrl[q].alloc}),
                                    !.wait_num = cl[r].data_num,
                                    !.output = [i \in 1..cl[r].data_num |-> EmptySlot]]]
  /\ UNCHANGED <<session_priority, facade_vars, dec_vars, cache_cond_, strategy, observer, sync_link, running_, cache_, batcher_, stop_pc,
                 disp, tp_, task_num_, proc_lock, wk>>

\* the client after the last item of its package was enqueued: Send returns
\* the control; Request returns true, RequestSync goes on to wait
AfterPush(c, rest) ==
  IF rest # <<>> THEN [c EXCEPT !.rest = rest]
  ELSE IF sync_link
       THEN [c EXCEPT !.rest = rest, !.pc = "waiting", !.early = stop_pc = "idle",
                      !.data_size = 0, !.data_num = 0]
       ELSE [Return(c, "true", "sent") EXCEPT !.early = stop_pc = "idle"]

\* CacheStatic::Enqueue, one package pushed to the back of the queue
EnqueueStatic(r) ==
  /\ cl[r].pc = "enqueue"
  /\ strategy = "STATIC"
  /\ CacheMutexFree(disp)
  /\ LET pack == StaticPackage(cl[r].rest, cl[r].data_size, cl[r].data_num,
                               ctrl[r].request_id)
         rest == SubSeq(cl[r].rest, Len(pack.data) + 1, Len(cl[r].rest))
     IN /\ cache_' = Append(cache_, pack)
        /\ cache_cond_' \in NotifyOne(cache_cond_, Waiting(cl, disp))
        /\ cl' = [cl EXCEPT ![r] = AfterPush(@, rest)]
  /\ UNCHANGED <<session_priority, facade_vars, dec_vars, strategy, observer, sync_link, running_, batcher_, stop_pc, ctrl,
                 disp, tp_, task_num_, proc_lock, wk>>

\* CacheDynamic::Enqueue, one Batcher::AddItem; a full batch is emitted
EnqueueDynamic(r) ==
  /\ cl[r].pc = "enqueue"
  /\ strategy = "DYNAMIC"
  /\ Len(batcher_) + 1 >= BatchSize => CacheMutexFree(disp)
  /\ LET batch == Append(batcher_, Head(cl[r].rest))
         rest == Tail(cl[r].rest)
     IN /\ IF Len(batch) >= BatchSize
           THEN /\ cache_' = Append(cache_, BatchPackage(batch, ctrl))
                /\ cache_cond_' = NotifyAll(cache_cond_, Waiting(cl, disp))
                /\ batcher_' = <<>>
           ELSE /\ cache_' = cache_
                /\ cache_cond_' = cache_cond_
                /\ batcher_' = batch
        /\ cl' = [cl EXCEPT ![r] = AfterPush(@, rest)]
  /\ UNCHANGED <<session_priority, facade_vars, dec_vars, strategy, observer, sync_link, running_, stop_pc, ctrl,
                 disp, tp_, task_num_, proc_lock, wk>>

\* the Batcher's timer emits a partial batch
BatcherTimeout ==
  /\ strategy = "DYNAMIC"
  /\ batcher_ # <<>>
  /\ CacheMutexFree(disp)
  /\ cache_' = Append(cache_, BatchPackage(batcher_, ctrl))
  /\ cache_cond_' = NotifyAll(cache_cond_, Waiting(cl, disp))
  /\ batcher_' = <<>>
  /\ UNCHANGED <<session_priority, facade_vars, dec_vars, strategy, observer, sync_link, running_, stop_pc, ctrl, cl,
                 disp, tp_, task_num_, proc_lock, wk>>

\* ----------------------------------------------------- InferServer client
\* RequestSync: the future is ready, return true
RequestSyncDone(r) ==
  /\ cl[r].pc = "waiting"
  /\ ctrl[r].done
  /\ cl' = [cl EXCEPT ![r] = Return(@, "true", "done")]
  /\ UNCHANGED <<session_priority, facade_vars, dec_vars, cache_cond_, strategy, observer, sync_link, running_, cache_, batcher_, stop_pc, ctrl,
                 disp, tp_, task_num_, proc_lock, wk>>

\* RequestSync: flag.wait_for returns future_status::timeout
RequestSyncTimeout(r) ==
  /\ cl[r].pc = "waiting"
  /\ cl[r].timeout > 0
  /\ ~ctrl[r].done
  /\ cl' = [cl EXCEPT ![r] = [@ EXCEPT !.pc = "timedout"]]
  /\ UNCHANGED <<session_priority, facade_vars, dec_vars, cache_cond_, strategy, observer, sync_link, running_, cache_, batcher_, stop_pc, ctrl,
                 disp, tp_, task_num_, proc_lock, wk>>

\* RequestSync: ctrl->Discard(); *status = TIMEOUT; return true
RequestSyncDiscard(r) ==
  /\ cl[r].pc = "timedout"
  /\ ctrl' = [ctrl EXCEPT ![r] = [@ EXCEPT !.discarded = TRUE]]
  /\ cl' = [cl EXCEPT ![r] = [Return(@, "true", "timeout") EXCEPT !.status = "TIMEOUT"]]
  /\ UNCHANGED <<session_priority, facade_vars, dec_vars, cache_cond_, strategy, observer, sync_link, running_, cache_, batcher_, stop_pc,
                 disp, tp_, task_num_, proc_lock, wk>>

\* InferServer::DiscardTask on an asynchronous session
DiscardTask(r) ==
  /\ ~sync_link
  /\ ctrl[r].alloc
  /\ ~ctrl[r].discarded
  /\ ctrl' = [ctrl EXCEPT ![r] = [@ EXCEPT !.discarded = TRUE]]
  /\ UNCHANGED <<session_priority, facade_vars, dec_vars, cache_cond_, strategy, observer, sync_link, running_, cache_, batcher_, stop_pc, cl,
                 disp, tp_, task_num_, proc_lock, wk>>

\* ------------------------------------------------------- CacheBase::Pop
\* waiters of WaitIfFull that saw the cache go below capacity during their wait
NoteDip(c, c_) ==
  [r \in Requests |->
     IF c[r].pc = "wf_wait" /\ Len(c_) < Capacity
     THEN [c[r] EXCEPT !.dipped = TRUE] ELSE c[r]]

\* the queue Pop works on after its check of the head package
Swept(c_, c, strat) ==
  IF HasDiscarded(Head(c_), c) THEN ClearDiscard(c_, c, strat) ELSE c_

\* Pop returns nullptr: the wait ended with the cache stopped and empty, or the
\* discard sweep left the queue empty
PopsNull(c_, c, strat, run) == c_ = <<>> \/ Swept(c_, c, strat) = <<>>

\* a notified thread finds WaitIfFull's predicate still false and waits again
WaitIfFullRecheck(r) ==
  /\ cl[r].pc = "wf_wait"
  /\ r \in cache_cond_
  /\ CacheFull(cache_)
  /\ cache_cond_' = cache_cond_ \ {r}
  /\ UNCHANGED <<session_priority, facade_vars, dec_vars, strategy, observer, sync_link, running_, cache_, batcher_, stop_pc, ctrl, cl,
                 disp, tp_, task_num_, proc_lock, wk>>

\* Pop under cache_mutex_ finds the cache empty and the predicate of its wait
\* false (running_ read as true): it is about to block
PopPredicate ==
  /\ disp.pc = "pop"
  /\ cache_ = <<>> /\ running_
  /\ disp' = [disp EXCEPT !.pc = "about_to_wait"]
  /\ UNCHANGED <<session_priority, facade_vars, dec_vars, strategy, observer, sync_link, running_, cache_, cache_cond_, batcher_,
                 stop_pc, ctrl, cl, tp_, task_num_, proc_lock, wk>>

\* cache_cond_.wait releases cache_mutex_ and blocks
PopBlock ==
  /\ disp.pc = "about_to_wait"
  /\ disp' = [disp EXCEPT !.pc = "wait"]
  /\ UNCHANGED <<session_priority, facade_vars, dec_vars, strategy, observer, sync_link, running_, cache_, cache_cond_, batcher_,
                 stop_pc, ctrl, cl, tp_, task_num_, proc_lock, wk>>

\* Pop finds the running cache empty and blocks in cache_cond_.wait, in one
\* step: what PopPredicate and PopBlock do when no Stop comes between them
PopWait ==
  /\ disp.pc = "pop"
  /\ cache_ = <<>> /\ running_
  /\ disp' = [disp EXCEPT !.pc = "wait"]
  /\ UNCHANGED <<session_priority, facade_vars, dec_vars, strategy, observer, sync_link, running_, cache_, cache_cond_, batcher_,
                 stop_pc, ctrl, cl, tp_, task_num_, proc_lock, wk>>

\* the dispatch thread's call of Cache::Pop, from taking cache_mutex_ (or from
\* the end of its wait, on a notification or a spurious wake-up) to the
\* return; a null package ends the dispatch loop
Pop ==
  /\ disp.pc \in {"pop", "wait"}
  /\ cache_ # <<>> \/ ~running_
  /\ IF PopsNull(cache_, ctrl, strategy, running_)
     THEN /\ disp' = [pc |-> "exit", pack |-> NoPack]
          /\ cache_' = <<>>
          /\ cache_cond_' = cache_cond_ \ {DispatchThread}
     ELSE LET c1 == Swept(cache_, ctrl, strategy)
          IN /\ disp' = [pc |-> "dispatch",
                         pack |-> PreparePackage(Head(c1), strategy)]
             /\ cache_' = Tail(c1)
             /\ cache_cond_' \in NotifyOne(cache_cond_ \ {DispatchThread},
                                           Waiting(cl, disp) \ {DispatchThread})
  /\ ctrl' = IF cache_ # <<>> /\ HasDiscarded(Head(cache_), ctrl)
             THEN [r \in Requests |->
                     Report(ctrl[r], SweepReports(cache_, ctrl, strategy, r),
                            "SUCCESS")]
             ELSE ctrl
  /\ cl' = NoteDip(cl, cache_')
  /\ UNCHANGED <<session_priority, facade_vars, dec_vars, strategy, observer, sync_link, running_, batcher_, stop_pc,
                 tp_, task_num_, proc_lock, wk>>

\* the dispatch loop hands the package to the least loaded engine's head node
Dispatch ==
  /\ disp.pc = "dispatch"
  /\ LET e == IdleEngine(task_num_)
     IN /\ task_num_' = [task_num_ EXCEPT ![e] = @ + 1]
        /\ tp_' = Append(tp_, [pack |-> disp.pack, eng |-> e, node |-> 1])
  /\ disp' = [pc |-> "pop", pack |-> NoPack]
  /\ UNCHANGED <<session_priority, facade_vars, dec_vars, cache_cond_, strategy, observer, sync_link, running_, cache_, batcher_, stop_pc, ctrl, cl,
                 proc_lock, wk>>

\* ------------------------------------------------------------ Cache::Stop
\* CacheBase::Stop: running_.store(false); notify_all
Stop ==
  /\ stop_pc = "idle"
  /\ running_' = FALSE
  /\ cache_cond_' = NotifyAll(cache_cond_, Waiting(cl, disp))
  /\ stop_pc' = IF strategy = "DYNAMIC" THEN "emit" ELSE "done"
  /\ UNCHANGED <<session_priority, facade_vars, dec_vars, strategy, observer, sync_link, cache_, batcher_, ctrl, cl,
                 disp, tp_, task_num_, proc_lock, wk>>

\* CacheDynamic::Stop after CacheBase::Stop: batcher_->Emit(); notify_all
StopEmit ==
  /\ stop_pc = "emit"
  /\ batcher_ # <<>> => CacheMutexFree(disp)
  /\ stop_pc' = "done"
  /\ cache_cond_' = NotifyAll(cache_cond_, Waiting(cl, disp))
  /\ IF batcher_ # <<>>
     THEN /\ cache_' = Append(cache_, BatchPackage(batcher_, ctrl))
          /\ batcher_' = <<>>
     ELSE UNCHANGED <<cache_, batcher_>>
  /\ UNCHANGED <<session_priority, facade_vars, dec_vars, strategy, observer, sync_link, running_, ctrl, cl,
                 disp, tp_, task_num_, proc_lock, wk>>

\* ---------------------------------------------------------------- TaskNode
\* a worker of the thread pool takes the next task
TakeTask(k) ==
  /\ wk[k].pc = "idle"
  /\ tp_ # <<>>
  /\ LET i == BestTask(tp_)
     IN /\ wk' = [wk EXCEPT ![k] = [IdleWorker EXCEPT !.pc = "lock",
                                                      !.pack = tp_[i].pack,
                                                      !.eng = tp_[i].eng,
                                                      !.node = tp_[i].node]]
        /\ tp_' = RemoveAt(tp_, i)
  /\ UNCHANGED <<session_priority, facade_vars, dec_vars, cache_cond_, strategy, observer, sync_link, running_, cache_, batcher_, stop_pc, ctrl, cl,
                 disp, task_num_, proc_lock>>

\* processor_->Lock() returns once no thread holds the processor's mutex
ProcessorFreeAlways(pl, e, n) == TRUE
ProcessorFree(pl, e, n) == pl[e][n] = 0

\* TaskNode::operator(): processor_->Lock()
Lock(k) ==
  /\ wk[k].pc = "lock"
  /\ ProcessorFree(proc_lock, wk[k].eng, wk[k].node)
  /\ proc_lock' = [proc_lock EXCEPT ![wk[k].eng][wk[k].node] = k]
  /\ wk' = [wk EXCEPT ![k] = [@ EXCEPT !.pc = "process"]]
  /\ UNCHANGED <<session_priority, facade_vars, dec_vars, cache_cond_, strategy, observer, sync_link, running_, cache_, batcher_, stop_pc, ctrl, cl,
                 disp, tp_, task_num_>>

\* where TaskNode::operator() goes after Process returned s
AfterProcessIgnoringStatus(s, node) ==
  IF node < NumNodes THEN "transmit" ELSE "tail"
AfterProcess(s, node) ==
  IF s # "SUCCESS" THEN "failed"
  ELSE IF node < NumNodes THEN "transmit" ELSE "tail"

\* TaskNode::operator(): s = processor_->Process(pack); lk.unlock()
Process(k) ==
  /\ wk[k].pc = "process"
  /\ \E s \in Statuses :
       wk' = [wk EXCEPT ![k] = [@ EXCEPT !.s = s, !.idx = 1,
                                         !.pc = AfterProcess(s, wk[k].node)]]
  /\ proc_lock' = [proc_lock EXCEPT ![wk[k].eng][wk[k].node] = 0]
  /\ UNCHANGED <<session_priority, facade_vars, dec_vars, cache_cond_, strategy, observer, sync_link, running_, cache_, batcher_, stop_pc, ctrl, cl,
                 disp, tp_, task_num_>>

\* Engine::Engine links each node to the next one of the chain: *downnode_
DownNodeIsItself(node) == node
DownNode(node) == node + 1

\* TaskNode::Transmit with a down node: the package goes back to the pool
Transmit(k) ==
  /\ wk[k].pc = "transmit"
  /\ tp_' = Append(tp_, [pack |-> [wk[k].pack EXCEPT !.priority = PriorityNext(@)],
                         eng |-> wk[k].eng, node |-> DownNode(wk[k].node)])
  /\ wk' = [wk EXCEPT ![k] = IdleWorker]
  /\ UNCHANGED <<session_priority, facade_vars, dec_vars, cache_cond_, strategy, observer, sync_link, running_, cache_, batcher_, stop_pc, ctrl, cl,
                 disp, task_num_, proc_lock>>

\* one ProcessFailed(s) of the failure loop, or one ProcessDone(SUCCESS, ..) of
\* the tail loop; the report that completes a live control calls its response
ReportDesc(k) ==
  /\ wk[k].pc \in {"failed", "tail"}
  /\ wk[k].idx <= Len(wk[k].pack.descs)
  /\ LET r == wk[k].pack.descs[wk[k].idx].rid
         rc == ctrl[r]
         answer == Responds(rc)
     IN \E slot \in IF wk[k].pc = "tail" THEN TailData(wk[k].pack, wk[k].idx)
                                          ELSE {EmptySlot} :
          IF slot.state = "fault"
          THEN /\ wk' = [wk EXCEPT ![k] = [@ EXCEPT !.pc = "fault"]]
               /\ ctrl' = ctrl
          ELSE /\ ctrl' = [ctrl EXCEPT ![r] =
                             [(IF wk[k].pc = "tail"
                               THEN ProcessDone(rc, slot,
                                                wk[k].pack.descs[wk[k].idx].index)
                               ELSE Report(rc, 1, wk[k].s))
                                EXCEPT !.fired = IF answer THEN @ + 1 ELSE @]]
               /\ wk' = [wk EXCEPT ![k] =
                           [@ EXCEPT !.idx = @ + 1,
                                     !.pc = IF answer THEN "callback" ELSE @,
                                     !.cb = r,
                                     !.back = wk[k].pc]]
  /\ UNCHANGED <<session_priority, facade_vars, dec_vars, cache_cond_, strategy, observer, sync_link, running_, cache_, batcher_, stop_pc, cl,
                 disp, tp_, task_num_, proc_lock>>

\* the response function: RequestSync's lambda (*status = s; *output = *data;
\* done.set_value()) or the observer's Notify
Callback(k) ==
  /\ wk[k].pc = "callback"
  /\ LET r == wk[k].cb
     IN /\ ctrl' = [ctrl EXCEPT ![r] = [@ EXCEPT !.done = TRUE]]
        /\ cl' = IF sync_link
                 THEN [cl EXCEPT ![r] = [@ EXCEPT !.status = ctrl[r].status,
                                                  !.late = cl[r].pc = "returned"]]
                 ELSE cl
  /\ wk' = [wk EXCEPT ![k] = [@ EXCEPT !.pc = wk[k].back]]
  /\ UNCHANGED <<session_priority, facade_vars, dec_vars, cache_cond_, strategy, observer, sync_link, running_, cache_, batcher_, stop_pc,
                 disp, tp_, task_num_, proc_lock>>

\* the end of the failure loop: operator() returns
FailedEnd(k) ==
  /\ wk[k].pc = "failed"
  /\ wk[k].idx > Len(wk[k].pack.descs)
  /\ wk' = [wk EXCEPT ![k] = IdleWorker]
  /\ UNCHANGED <<session_priority, facade_vars, dec_vars, cache_cond_, strategy, observer, sync_link, running_, cache_, batcher_, stop_pc, ctrl, cl,
                 disp, tp_, task_num_, proc_lock>>

\* the end of the tail loop: done_notifier_(), which is --task_num_
DoneNotifier(k) ==
  /\ wk[k].pc = "tail"
  /\ wk[k].idx > Len(wk[k].pack.descs)
  /\ task_num_' = [task_num_ EXCEPT ![wk[k].eng] = @ - 1]
  /\ wk' = [wk EXCEPT ![k] = IdleWorker]
  /\ UNCHANGED <<session_priority, facade_vars, dec_vars, cache_cond_, strategy, observer, sync_link, running_, cache_, batcher_, stop_pc, ctrl, cl,
                 disp, tp_, proc_lock>>

\* ---------------------------------------------------- InferServer facade
\* the session descriptions clients pass: model path, function name and the
\* type names of the pre- and postprocessor
Descs ==
  { [path |-> "a_b", func |-> "c",   preproc |-> "p", postproc |-> "q"],
    [path |-> "a",   func |-> "b_c", preproc |-> "p", postproc |-> "q"],
    [path |-> "a",   func |-> "c",   preproc |-> "p", postproc |-> "q"] }

\* CreateExecutor: the executor's name, the four parts joined by "_"
ExecutorName(d) ==
  d.path \o "_" \o d.func \o "_" \o d.preproc \o "_" \o d.postproc

Names == {ExecutorName(d) : d \in Descs}
Threads == 1..NumThreads
SessionIds == 1..MaxSess
ExecutorIds == 1..MaxSess

\* max_thread_num of CreateExecutor
MaxThreadNum == 3 * CpuCores

NoExecutor == [state |-> "none", name |-> "", engine_num |-> 0, sessions |-> {}]
NoDesc == [path |-> "", func |-> "", preproc |-> "", postproc |-> ""]
NoSession == [state |-> "none", executor |-> 0, desc |-> NoDesc, sync |-> FALSE]
IdleThread == [pc |-> "idle", desc |-> NoDesc, engine_num |-> 0, observer |-> FALSE,
               executor |-> 0, session |-> 0, th_num |-> 0, ret |-> "none"]

InitFacade ==
  /\ executor_map_ = [n \in Names |-> 0]
  /\ executors = [e \in ExecutorIds |-> NoExecutor]
  /\ sessions = [s \in SessionIds |-> NoSession]
  /\ th = [t \in Threads |-> IdleThread]
  /\ tp_size = 0
  /\ tp_exiting = 0
  /\ aborted = FALSE
  /\ executor_map_mutex_ = 0
  /\ tp_mutex_ = 0

\* the next object new returns
NewExecutor == CHOOSE e \in ExecutorIds :
                 executors[e].state = "none" /\ \A f \in 1..(e - 1) : executors[f].state # "none"
NewSession == CHOOSE s \in SessionIds :
                sessions[s].state = "none" /\ \A u \in 1..(s - 1) : sessions[u].state # "none"

\* what a use of the Executor behind pointer e can do: a live object is used;
\* a deleted one is undefined behaviour, the process faults or the freed
\* object still reads and writes as it was left
UseOutcomes(e) == IF executors[e].state = "live" THEN {"ok"} ELSE {"fault", "stale"}

\* lk.unlock(), or the unique_lock leaving its scope: the mutex is free
StaysLocked(holder) == holder
Unlock(holder) == 0

\* the positions at which a thread is about to lock a facade mutex
MapSections == {"create_executor", "exist", "check"}
TpSections == {"resize", "shrink"}

\* std::unique_lock<std::mutex> lk(executor_map_mutex_) of CreateExecutor,
\* ExistExecutor and CheckAndDestroyExecutor
LockExecutorMap(t) ==
  /\ ~aborted
  /\ th[t].pc \in MapSections
  /\ executor_map_mutex_ = 0
  /\ executor_map_mutex_' = t
  /\ UNCHANGED <<pipe_vars, dec_vars, executor_map_, executors, sessions, th, tp_size, tp_exiting, aborted,
                 tp_mutex_>>

\* std::unique_lock<std::mutex> tp_lk(tp_mutex_) of CreateExecutor and
\* CheckAndDestroyExecutor
LockTp(t) ==
  /\ ~aborted
  /\ th[t].pc \in TpSections
  /\ tp_mutex_ = 0
  /\ tp_mutex_' = t
  /\ UNCHANGED <<pipe_vars, dec_vars, executor_map_, executors, sessions, th, tp_size, tp_exiting, aborted,
                 executor_map_mutex_>>

\* InferServer::CreateSession is called
CreateSession(t) ==
  /\ ~aborted
  /\ th[t].pc = "idle"
  /\ UNCHANGED <<executor_map_mutex_, tp_mutex_>>
  /\ Cardinality({s \in SessionIds : sessions[s].state = "none"}) >
       Cardinality({u \in Threads : th[u].pc \in {"create_executor", "resize", "link"}})
  /\ \E d \in Descs, n \in 1..EngineNum, obs \in BOOLEAN :
       th' = [th EXCEPT ![t] = [IdleThread EXCEPT !.pc = "create_executor",
                                                  !.desc = d,
                                                  !.engine_num = n,
                                                  !.observer = obs]]
  /\ UNCHANGED <<pipe_vars, dec_vars, executor_map_, executors, sessions, tp_size, tp_exiting, aborted>>

\* CreateExecutor under executor_map_mutex_: the entry of the name is returned,
\* or a new Executor is constructed and entered; a constructor that throws
\* makes CreateSession return nullptr
CreateExecutor(t) ==
  /\ ~aborted
  /\ th[t].pc = "create_executor"
  /\ executor_map_mutex_ = t
  /\ executor_map_mutex_' = Unlock(executor_map_mutex_)
  /\ tp_mutex_' = tp_mutex_
  /\ IF executor_map_[ExecutorName(th[t].desc)] # 0
     THEN /\ th' = [th EXCEPT ![t] = [@ EXCEPT !.pc = "link",
                                               !.executor = executor_map_[ExecutorName(th[t].desc)]]]
          /\ UNCHANGED <<executor_map_, executors>>
     ELSE \/ /\ th' = [th EXCEPT ![t] = [IdleThread EXCEPT !.ret = "nullptr"]]
             /\ UNCHANGED <<executor_map_, executors>>
          \/ /\ executors' = [executors EXCEPT ![NewExecutor] =
                                [state |-> "live", name |-> ExecutorName(th[t].desc),
                                 engine_num |-> th[t].engine_num, sessions |-> {}]]
             /\ executor_map_' = [executor_map_ EXCEPT ![ExecutorName(th[t].desc)] = NewExecutor]
             /\ th' = [th EXCEPT ![t] = [@ EXCEPT !.pc = "resize",
                                                  !.executor = NewExecutor]]
  /\ UNCHANGED <<pipe_vars, dec_vars, sessions, tp_size, tp_exiting, aborted>>

\* CreateExecutor under tp_mutex_: the pool grows by three threads per engine
GrowPool(t) ==
  /\ ~aborted
  /\ th[t].pc = "resize"
  /\ tp_mutex_ = t
  /\ tp_mutex_' = Unlock(tp_mutex_)
  /\ executor_map_mutex_' = executor_map_mutex_
  /\ tp_size' = IF tp_size < MaxThreadNum
                THEN Min(tp_size + 3 * th[t].engine_num, MaxThreadNum)
                ELSE tp_size
  /\ th' = [th EXCEPT ![t] = [@ EXCEPT !.pc = "link"]]
  /\ UNCHANGED <<pipe_vars, dec_vars, executor_map_, executors, sessions, tp_exiting, aborted>>

\* CreateSession: new Session, SetObserver, executor->Link(session), return
Link(t) ==
  /\ ~aborted
  /\ th[t].pc = "link"
  /\ UNCHANGED <<executor_map_mutex_, tp_mutex_>>
  /\ \E o \in UseOutcomes(th[t].executor) :
       IF o = "fault"
       THEN /\ aborted' = TRUE
            /\ UNCHANGED <<executors, sessions, th>>
       ELSE /\ sessions' = [sessions EXCEPT ![NewSession] =
                              [state |-> "live", executor |-> th[t].executor,
                               desc |-> th[t].desc, sync |-> SyncLink(th[t].observer)]]
            /\ executors' = [executors EXCEPT ![th[t].executor] =
                               [@ EXCEPT !.sessions = @ \cup {NewSession}]]
            /\ th' = [th EXCEPT ![t] = [IdleThread EXCEPT !.ret = "session",
                                                          !.session = NewSession]]
            /\ aborted' = aborted
  /\ UNCHANGED <<pipe_vars, dec_vars, executor_map_, tp_size, tp_exiting>>

\* InferServer::DestroySession is called with a session CreateSession returned
\* and no other call is destroying
DestroySession(t) ==
  /\ ~aborted
  /\ th[t].pc = "idle"
  /\ UNCHANGED <<executor_map_mutex_, tp_mutex_>>
  /\ \E s \in SessionIds :
       /\ sessions[s].state = "live"
       /\ \A u \in Threads : th[u].pc \in {"exist", "check", "delete", "shrink"}
                               => th[u].session # s
       /\ th' = [th EXCEPT ![t] = [IdleThread EXCEPT !.pc = "exist",
                                                     !.session = s,
                                                     !.executor = sessions[s].executor]]
  /\ UNCHANGED <<pipe_vars, dec_vars, executor_map_, executors, sessions, tp_size, tp_exiting, aborted>>

\* ExistExecutor under executor_map_mutex_: executor_map_.count(executor->GetName())
ExistExecutor(t) ==
  /\ ~aborted
  /\ th[t].pc = "exist"
  /\ executor_map_mutex_ = t
  /\ executor_map_mutex_' = Unlock(executor_map_mutex_)
  /\ tp_mutex_' = tp_mutex_
  /\ \E o \in UseOutcomes(th[t].executor) :
       IF o = "fault"
       THEN aborted' = TRUE /\ th' = th
       ELSE /\ aborted' = aborted
            /\ th' = [th EXCEPT ![t] =
                        IF executor_map_[executors[th[t].executor].name] # 0
                        THEN [@ EXCEPT !.pc = "check"]
                        ELSE [IdleThread EXCEPT !.ret = "false"]]
  /\ UNCHANGED <<pipe_vars, dec_vars, executor_map_, executors, sessions, tp_size, tp_exiting>>

\* CheckAndDestroyExecutor under executor_map_mutex_: Unlink, delete session,
\* and with no session left the entry of the executor's name is erased
CheckAndDestroyExecutor(t) ==
  /\ ~aborted
  /\ th[t].pc = "check"
  /\ executor_map_mutex_ = t
  /\ executor_map_mutex_' = Unlock(executor_map_mutex_)
  /\ tp_mutex_' = tp_mutex_
  /\ \E o \in UseOutcomes(th[t].executor) :
       LET e == th[t].executor
           left == executors[e].sessions \ {th[t].session}
       IN IF o = "fault"
          THEN /\ aborted' = TRUE
               /\ UNCHANGED <<executor_map_, executors, sessions, th>>
          ELSE /\ executors' = [executors EXCEPT ![e] = [@ EXCEPT !.sessions = left]]
               /\ sessions' = [sessions EXCEPT ![th[t].session] =
                                 [@ EXCEPT !.state = "deleted"]]
               /\ IF left # {}
                  THEN /\ th' = [th EXCEPT ![t] = [IdleThread EXCEPT !.ret = "true"]]
                       /\ UNCHANGED <<executor_map_, aborted>>
                  ELSE IF executor_map_[executors[e].name] # 0
                  THEN /\ executor_map_' = [executor_map_ EXCEPT ![executors[e].name] = 0]
                       /\ th' = [th EXCEPT ![t] =
                                   [@ EXCEPT !.pc = "delete",
                                             !.th_num = 2 * executors[e].engine_num]]
                       /\ aborted' = aborted
                  ELSE /\ aborted' = TRUE
                       /\ UNCHANGED <<executor_map_, th>>
  /\ UNCHANGED <<pipe_vars, dec_vars, tp_size, tp_exiting>>

\* CheckAndDestroyExecutor after the unlock: delete executor
DeleteExecutor(t) ==
  /\ ~aborted
  /\ th[t].pc = "delete"
  /\ UNCHANGED <<executor_map_mutex_, tp_mutex_>>
  /\ \E o \in UseOutcomes(th[t].executor) :
       IF o = "fault"
       THEN aborted' = TRUE /\ UNCHANGED <<executors, th>>
       ELSE /\ executors' = [executors EXCEPT ![th[t].executor] =
                               [@ EXCEPT !.state = "deleted"]]
            /\ th' = [th EXCEPT ![t] = [@ EXCEPT !.pc = "shrink"]]
            /\ aborted' = aborted
  /\ UNCHANGED <<pipe_vars, dec_vars, executor_map_, sessions, tp_size, tp_exiting>>

\* the most workers told to exit and not yet gone that the model follows
MaxExiting == 2 * EngineNum

\* tp_->IdleNumber(): the workers blocked on the queue, among them those a
\* lazy shrink has told to exit and that have not woken yet
IdleNumbers == 0..(tp_size + tp_exiting)

\* a worker told to exit wakes and exits
WorkerExit ==
  /\ ~aborted
  /\ tp_exiting > 0
  /\ tp_exiting' = tp_exiting - 1
  /\ UNCHANGED <<pipe_vars, dec_vars, executor_map_, executors, sessions, th, tp_size, aborted,
                 executor_map_mutex_, tp_mutex_>>

\* CheckAndDestroyExecutor under tp_mutex_: the pool shrinks by two threads per
\* engine when more than that many are idle; DestroySession returns true.
\* tp_->Size() - th_num is unsigned: below th_num it wraps to 2^64 + n for the
\* negative difference n, which is written as n here, and the model follows
\* the server no further than that request
ShrinkPool(t) ==
  /\ ~aborted
  /\ th[t].pc = "shrink"
  /\ tp_mutex_ = t
  /\ tp_mutex_' = Unlock(tp_mutex_)
  /\ executor_map_mutex_' = executor_map_mutex_
  /\ \E idle \in IdleNumbers :
       IF idle > th[t].th_num
       THEN /\ tp_size' = tp_size - th[t].th_num
            /\ IF tp_size >= th[t].th_num
               THEN /\ tp_exiting + th[t].th_num <= MaxExiting
                    /\ tp_exiting' = tp_exiting + th[t].th_num
                    /\ aborted' = aborted
               ELSE /\ tp_exiting' = tp_exiting
                    /\ aborted' = TRUE
       ELSE UNCHANGED <<tp_size, tp_exiting, aborted>>
  /\ th' = [th EXCEPT ![t] = [IdleThread EXCEPT !.ret = "true"]]
  /\ UNCHANGED <<pipe_vars, dec_vars, executor_map_, executors, sessions>>

\* ------------------------------------------------------------ DecodeHandler
\* the threads that run DecodeHandler code: the thread of the decoder's owner
\* (its calls, then the destructor) and the event loop
DecThreads == {"user", "loop"}

\* the events the codec hands to ReceiveEvent: CNCODEC_CB_EVENT_EOS, and the
\* ones EventTaskRunner answers with AbortDecoder
DecEvents == {"EOS", "ERROR"}

IdleDecThread == [pc |-> "idle", owns |-> FALSE, eos |-> FALSE, ret |-> "none"]

NoCodec == [state |-> "none", eos_fed |-> 0, eos_event |-> FALSE, errors |-> 0,
            data_after_eos |-> FALSE, eos_to_cleared |-> FALSE]

\* the decoder EasyDecode's constructor leaves: the handler constructed and its
\* event loop started, then InitVideoDecode / InitJpegDecode done (created) or
\* thrown, in which case the constructor deletes the handler
InitDecode(created) ==
  /\ handle_ = created
  /\ send_eos_ = FALSE
  /\ got_eos_ = FALSE
  /\ status_ = "RUNNING"
  /\ event_queue_ = <<>>
  /\ eos_mtx_ = "free"
  /\ event_cond_ = FALSE
  /\ eos_cond_ = FALSE
  /\ dth = [t \in DecThreads |->
              [IdleDecThread EXCEPT !.pc = IF t = "loop" THEN "top"
                                           ELSE IF created THEN "idle" ELSE "d_start"]]
  /\ codec = [NoCodec EXCEPT !.state = IF created THEN "running" ELSE "none"]
  /\ eos_called = 0
  /\ dec_fault = FALSE

\* event_mtx_ is held by the event loop from the top of its loop to the block
\* in event_cond_.wait or the unlock before the event is handled
EventMutexFree(d) == d["loop"].pc \notin {"top", "pred", "about_to_block", "after_wait"}

\* the pc a thread is at after AbortDecoder or ReceiveEOS returned
AfterGotEos(t) == IF t = "loop" THEN "top" ELSE "idle"

\* ----- the codec's callback thread
\* EventHandler -> ReceiveEvent: the event is queued under event_mtx_ and the
\* event loop notified
ReceiveEvent(type) ==
  /\ ~dec_fault
  /\ codec.state = "running"
  /\ EventMutexFree(dth)
  /\ IF type = "EOS" THEN codec.eos_event ELSE codec.errors < MaxErrors
  /\ event_queue_' = Append(event_queue_, type)
  /\ event_cond_' = (event_cond_ \/ dth["loop"].pc = "blocked")
  /\ codec' = IF type = "EOS" THEN [codec EXCEPT !.eos_event = FALSE]
              ELSE [codec EXCEPT !.errors = @ + 1]
  /\ UNCHANGED <<pipe_vars, facade_vars, handle_, send_eos_, got_eos_, status_, eos_mtx_,
                 eos_cond_, dth, eos_called, dec_fault>>

\* ----- DecodeHandler::EventTaskRunner
\* while (!event_queue_.empty() || !got_eos_)
LoopTop ==
  /\ ~dec_fault
  /\ dth["loop"].pc = "top"
  /\ dth' = [dth EXCEPT !["loop"].pc =
               IF event_queue_ # <<>> \/ ~got_eos_ THEN "pred" ELSE "exited"]
  /\ UNCHANGED <<pipe_vars, facade_vars, handle_, send_eos_, got_eos_, status_, event_queue_,
                 eos_mtx_, event_cond_, eos_cond_, codec, eos_called, dec_fault>>

\* the predicate of event_cond_.wait: !event_queue_.empty() || got_eos_
LoopPredicate ==
  /\ ~dec_fault
  /\ dth["loop"].pc = "pred"
  /\ dth' = [dth EXCEPT !["loop"].pc =
               IF event_queue_ # <<>> \/ got_eos_ THEN "after_wait" ELSE "about_to_block"]
  /\ UNCHANGED <<pipe_vars, facade_vars, handle_, send_eos_, got_eos_, status_, event_queue_,
                 eos_mtx_, event_cond_, eos_cond_, codec, eos_called, dec_fault>>

\* event_cond_.wait releases event_mtx_ and blocks
LoopBlock ==
  /\ ~dec_fault
  /\ dth["loop"].pc = "about_to_block"
  /\ dth' = [dth EXCEPT !["loop"].pc = "blocked"]
  /\ event_cond_' = FALSE
  /\ UNCHANGED <<pipe_vars, facade_vars, handle_, send_eos_, got_eos_, status_, event_queue_,
                 eos_mtx_, eos_cond_, codec, eos_called, dec_fault>>

\* the wait wakes, on a notification or spuriously, and takes event_mtx_ again
LoopWake ==
  /\ ~dec_fault
  /\ dth["loop"].pc = "blocked"
  /\ dth' = [dth EXCEPT !["loop"].pc = "pred"]
  /\ event_cond_' = FALSE
  /\ UNCHANGED <<pipe_vars, facade_vars, handle_, send_eos_, got_eos_, status_, event_queue_,
                 eos_mtx_, eos_cond_, codec, eos_called, dec_fault>>

\* after the wait: continue on an empty queue, else pop the event, unlock and
\* switch on its type (ReceiveEOS for EOS, AbortDecoder for the others)
LoopTake ==
  /\ ~dec_fault
  /\ dth["loop"].pc = "after_wait"
  /\ IF event_queue_ = <<>>
     THEN /\ dth' = [dth EXCEPT !["loop"].pc = "top"]
          /\ event_queue_' = event_queue_
     ELSE /\ dth' = [dth EXCEPT !["loop"].pc =
                       IF Head(event_queue_) = "EOS" THEN "receive_eos" ELSE "abort"]
          /\ event_queue_' = Tail(event_queue_)
  /\ UNCHANGED <<pipe_vars, facade_vars, handle_, send_eos_, got_eos_, status_,
                 eos_mtx_, event_cond_, eos_cond_, codec, eos_called, dec_fault>>

\* ----- DecodeHandler::ReceiveEOS
\* status_.store(EOS); attr_.eos_callback()
ReceiveEOS ==
  /\ ~dec_fault
  /\ dth["loop"].pc = "receive_eos"
  /\ status_' = "EOS"
  /\ eos_called' = eos_called + 1
  /\ dth' = [dth EXCEPT !["loop"].pc = "got_lock"]
  /\ UNCHANGED <<pipe_vars, facade_vars, handle_, send_eos_, got_eos_, event_queue_,
                 eos_mtx_, event_cond_, eos_cond_, codec, dec_fault>>

\* ----- DecodeHandler::AbortDecoder, on the event loop or the owner's thread
\* if (handle_)
AbortCheck(t) ==
  /\ ~dec_fault
  /\ dth[t].pc = "abort"
  /\ dth' = [dth EXCEPT ![t].pc = IF handle_ THEN "abort_clear" ELSE AfterGotEos(t)]
  /\ UNCHANGED <<pipe_vars, facade_vars, handle_, send_eos_, got_eos_, status_, event_queue_,
                 eos_mtx_, event_cond_, eos_cond_, codec, eos_called, dec_fault>>

\* cnvideoDecAbort / cnjpegDecAbort(handle_); handle_ = nullptr;
\* status_.store(EOS); attr_.eos_callback()
AbortClear(t) ==
  /\ ~dec_fault
  /\ dth[t].pc = "abort_clear"
  /\ handle_' = FALSE
  /\ codec' = [codec EXCEPT !.state = "aborted", !.eos_event = FALSE]
  /\ status_' = "EOS"
  /\ eos_called' = eos_called + 1
  /\ dth' = [dth EXCEPT ![t].pc = "got_lock"]
  /\ UNCHANGED <<pipe_vars, facade_vars, send_eos_, got_eos_, event_queue_,
                 eos_mtx_, event_cond_, eos_cond_, dec_fault>>

\* unique_lock<mutex> eos_lk(eos_mtx_) of ReceiveEOS and AbortDecoder
GotEosLock(t) ==
  /\ ~dec_fault
  /\ dth[t].pc = "got_lock"
  /\ eos_mtx_ = "free"
  /\ eos_mtx_' = t
  /\ dth' = [dth EXCEPT ![t].pc = "got_set"]
  /\ UNCHANGED <<pipe_vars, facade_vars, handle_, send_eos_, got_eos_, status_, event_queue_,
                 event_cond_, eos_cond_, codec, eos_called, dec_fault>>

\* what a release of eos_mtx_ by thread t leaves: free when t holds it; when
\* it does not, the behaviour is undefined: the process faults, or the mutex
\* is left as it is, or it is freed under its holder
UnlockOutcomes(holder, t) ==
  IF holder = t THEN {"free"} ELSE {"fault", holder, "free"}

\* got_eos_ = true; eos_cond_.notify_one(); the lock is released on return
GotEosSet(t) ==
  /\ ~dec_fault
  /\ dth[t].pc = "got_set"
  /\ got_eos_' = TRUE
  /\ eos_cond_' = (eos_cond_ \/ dth["user"].pc = "d_wait")
  /\ \E o \in UnlockOutcomes(eos_mtx_, t) :
       IF o = "fault"
       THEN dec_fault' = TRUE /\ UNCHANGED <<eos_mtx_, dth>>
       ELSE /\ eos_mtx_' = o
            /\ dth' = [dth EXCEPT ![t].pc = AfterGotEos(t)]
            /\ dec_fault' = dec_fault
  /\ UNCHANGED <<pipe_vars, facade_vars, handle_, send_eos_, status_, event_queue_,
                 event_cond_, codec, eos_called>>

\* ----- the owner's calls
\* EasyDecode::Pause / Resume
PauseResume ==
  /\ ~dec_fault
  /\ dth["user"].pc = "idle"
  /\ status_ \in {"RUNNING", "PAUSED"}
  /\ status_' = IF status_ = "RUNNING" THEN "PAUSED" ELSE "RUNNING"
  /\ dth' = [dth EXCEPT !["user"].ret = "true"]
  /\ UNCHANGED <<pipe_vars, facade_vars, handle_, send_eos_, got_eos_, event_queue_,
                 eos_mtx_, event_cond_, eos_cond_, codec, eos_called, dec_fault>>

\* EasyDecode::FeedData refuses the packet: no handle, EOS sent, or paused
FeedDataRefused == ~handle_ \/ send_eos_ \/ status_ = "PAUSED"

\* the codec after a packet of data was fed to it
FedData(c) == [c EXCEPT !.data_after_eos = @ \/ c.eos_fed > 0]

\* EasyDecode::FeedData with a packet that has data, or SendData with such a
\* packet: SendData goes on to FeedEos when eos is set and FeedData fed
SendData(direct, eos) ==
  /\ ~dec_fault
  /\ dth["user"].pc = "idle"
  /\ direct => ~eos
  /\ IF FeedDataRefused
     THEN /\ dth' = [dth EXCEPT !["user"].ret = "false"]
          /\ codec' = codec
     ELSE /\ dth' = [dth EXCEPT !["user"].ret = IF eos THEN "none" ELSE "true",
                                !["user"].pc = IF eos THEN "feed_eos" ELSE "idle"]
          /\ codec' = FedData(codec)
  /\ UNCHANGED <<pipe_vars, facade_vars, handle_, send_eos_, got_eos_, status_, event_queue_,
                 eos_mtx_, event_cond_, eos_cond_, eos_called, dec_fault>>

\* EasyDecode::FeedEos, or SendData with eos set and a packet without data
CallFeedEos ==
  /\ ~dec_fault
  /\ dth["user"].pc = "idle"
  /\ dth' = [dth EXCEPT !["user"].pc = "feed_eos", !["user"].ret = "none"]
  /\ UNCHANGED <<pipe_vars, facade_vars, handle_, send_eos_, got_eos_, status_, event_queue_,
                 eos_mtx_, event_cond_, eos_cond_, codec, eos_called, dec_fault>>

\* what cnvideoDecFeedData / cnjpegDecFeedData with the EOS flag returns: on a
\* handle, success, a timeout or an error; on a null handle an error, or the
\* library faults
FeedOutcomes(handle) ==
  IF handle THEN {"ok", "timeout", "error"} ELSE {"error", "fault"}

\* the codec after the EOS input was fed with outcome o
FedEos(c, handle, o) ==
  [c EXCEPT !.eos_fed = IF o = "ok" THEN Min(@ + 1, 2) ELSE @,
            !.eos_event = @ \/ o = "ok",
            !.eos_to_cleared = @ \/ (~handle /\ c.state = "aborted")]

\* DecodeHandler::FeedEos under eos_mtx_, called by the owner (back = "idle")
\* or by the destructor (back = "d_owns"): false when EOS was sent, else the
\* EOS input is fed; a timeout or an error throws
FeedEos ==
  /\ ~dec_fault
  /\ dth["user"].pc \in {"feed_eos", "d_feed"}
  /\ eos_mtx_ = "free"
  /\ eos_mtx_' = eos_mtx_
  /\ IF send_eos_
     THEN /\ dth' = [dth EXCEPT !["user"].ret = "false",
                                !["user"].pc = IF @ = "d_feed" THEN "d_owns" ELSE "idle"]
          /\ UNCHANGED <<send_eos_, codec, dec_fault>>
     ELSE \E o \in FeedOutcomes(handle_) :
            /\ codec' = FedEos(codec, handle_, o)
            /\ send_eos_' = (o = "ok")
            /\ IF o = "ok"
               THEN /\ dth' = [dth EXCEPT !["user"].ret = "true",
                                          !["user"].pc = IF @ = "d_feed" THEN "d_owns"
                                                         ELSE "idle"]
                    /\ dec_fault' = dec_fault
               ELSE IF o = "fault" \/ dth["user"].pc = "d_feed"
               THEN \* the exception leaves the destructor's try block with the
                    \* event loop not joined: std::terminate
                    /\ dec_fault' = TRUE
                    /\ dth' = dth
               ELSE /\ dth' = [dth EXCEPT !["user"].ret = "threw", !["user"].pc = "idle"]
                    /\ dec_fault' = dec_fault
  /\ UNCHANGED <<pipe_vars, facade_vars, handle_, got_eos_, status_, event_queue_,
                 event_cond_, eos_cond_, eos_called>>

\* EasyDecode::AbortDecoder is called
CallAbort ==
  /\ ~dec_fault
  /\ dth["user"].pc = "idle"
  /\ dth' = [dth EXCEPT !["user"].pc = "abort", !["user"].ret = "none"]
  /\ UNCHANGED <<pipe_vars, facade_vars, handle_, send_eos_, got_eos_, status_, event_queue_,
                 eos_mtx_, event_cond_, eos_cond_, codec, eos_called, dec_fault>>

\* ----- DecodeHandler::~DecodeHandler
\* the owner deletes the decoder
Destroy ==
  /\ ~dec_fault
  /\ dth["user"].pc = "idle"
  /\ dth' = [dth EXCEPT !["user"].pc = "d_start", !["user"].ret = "none"]
  /\ UNCHANGED <<pipe_vars, facade_vars, handle_, send_eos_, got_eos_, status_, event_queue_,
                 eos_mtx_, event_cond_, eos_cond_, codec, eos_called, dec_fault>>

\* status_.store(STOP); unique_lock<mutex> eos_lk(eos_mtx_)
DtorLock ==
  /\ ~dec_fault
  /\ dth["user"].pc = "d_start"
  /\ eos_mtx_ = "free"
  /\ status_' = "STOP"
  /\ eos_mtx_' = "user"
  /\ dth' = [dth EXCEPT !["user"].pc = "d_check", !["user"].owns = TRUE]
  /\ UNCHANGED <<pipe_vars, facade_vars, handle_, send_eos_, got_eos_, event_queue_,
                 event_cond_, eos_cond_, codec, eos_called, dec_fault>>

\* if (!got_eos_): with EOS not sent and a handle, eos_mtx_.unlock() frees the
\* mutex for the destructor's own FeedEos and eos_lk keeps its owns flag;
\* without a handle got_eos_ is set
DtorCheck ==
  /\ ~dec_fault
  /\ dth["user"].pc = "d_check"
  /\ IF ~got_eos_ /\ ~send_eos_ /\ handle_
     THEN /\ eos_mtx_' = "free"
          /\ dth' = [dth EXCEPT !["user"].pc = "d_feed"]
          /\ got_eos_' = got_eos_
     ELSE /\ eos_mtx_' = eos_mtx_
          /\ dth' = [dth EXCEPT !["user"].pc = "d_owns"]
          /\ got_eos_' = (got_eos_ \/ ~handle_)
  /\ UNCHANGED <<pipe_vars, facade_vars, handle_, send_eos_, status_, event_queue_,
                 event_cond_, eos_cond_, codec, eos_called, dec_fault>>

\* if (!eos_lk.owns_lock()) eos_lk.lock()
DtorOwns ==
  /\ ~dec_fault
  /\ dth["user"].pc = "d_owns"
  /\ dth["user"].owns \/ eos_mtx_ = "free"
  /\ eos_mtx_' = IF dth["user"].owns THEN eos_mtx_ ELSE "user"
  /\ dth' = [dth EXCEPT !["user"].pc = "d_got", !["user"].owns = TRUE]
  /\ UNCHANGED <<pipe_vars, facade_vars, handle_, send_eos_, got_eos_, status_, event_queue_,
                 event_cond_, eos_cond_, codec, eos_called, dec_fault>>

\* if (!got_eos_) eos_cond_.wait(eos_lk, ...): the predicate is read
DtorGotEos ==
  /\ ~dec_fault
  /\ dth["user"].pc = "d_got"
  /\ dth' = [dth EXCEPT !["user"].pc = IF got_eos_ THEN "d_notify" ELSE "d_block"]
  /\ UNCHANGED <<pipe_vars, facade_vars, handle_, send_eos_, got_eos_, status_, event_queue_,
                 eos_mtx_, event_cond_, eos_cond_, codec, eos_called, dec_fault>>

\* eos_cond_.wait releases eos_mtx_ through eos_lk and blocks
DtorBlock ==
  /\ ~dec_fault
  /\ dth["user"].pc = "d_block"
  /\ eos_cond_' = FALSE
  /\ \E o \in UnlockOutcomes(eos_mtx_, "user") :
       IF o = "fault"
       THEN dec_fault' = TRUE /\ UNCHANGED <<eos_mtx_, dth>>
       ELSE /\ eos_mtx_' = o
            /\ dth' = [dth EXCEPT !["user"].pc = "d_wait"]
            /\ dec_fault' = dec_fault
  /\ UNCHANGED <<pipe_vars, facade_vars, handle_, send_eos_, got_eos_, status_, event_queue_,
                 event_cond_, codec, eos_called>>

\* the wait wakes, on a notification or spuriously, takes eos_mtx_ again and
\* finds got_eos_ set (every notification of eos_cond_ follows got_eos_ = true)
DtorWake ==
  /\ ~dec_fault
  /\ dth["user"].pc = "d_wait"
  /\ eos_mtx_ = "free"
  /\ got_eos_
  /\ eos_mtx_' = "user"
  /\ eos_cond_' = FALSE
  /\ dth' = [dth EXCEPT !["user"].pc = "d_notify"]
  /\ UNCHANGED <<pipe_vars, facade_vars, handle_, send_eos_, got_eos_, status_, event_queue_,
                 event_cond_, codec, eos_called, dec_fault>>

\* event_cond_.notify_all(), without event_mtx_
DtorNotify ==
  /\ ~dec_fault
  /\ dth["user"].pc = "d_notify"
  /\ event_cond_' = (event_cond_ \/ dth["loop"].pc = "blocked")
  /\ dth' = [dth EXCEPT !["user"].pc = "d_join"]
  /\ UNCHANGED <<pipe_vars, facade_vars, handle_, send_eos_, got_eos_, status_, event_queue_,
                 eos_mtx_, eos_cond_, codec, eos_called, dec_fault>>

\* event_loop_.join() returns; the codec is stopped and destroyed, handle_ =
\* nullptr, and eos_lk releases eos_mtx_ at the end of the try block
DtorJoin ==
  /\ ~dec_fault
  /\ dth["user"].pc = "d_join"
  /\ dth["loop"].pc = "exited"
  /\ handle_' = FALSE
  /\ codec' = IF handle_ THEN [codec EXCEPT !.state = "destroyed", !.eos_event = FALSE]
              ELSE codec
  /\ \E o \in UnlockOutcomes(eos_mtx_, "user") :
       IF o = "fault"
       THEN dec_fault' = TRUE /\ UNCHANGED <<eos_mtx_, dth>>
       ELSE /\ eos_mtx_' = o
            /\ dth' = [dth EXCEPT !["user"].pc = "done", !["user"].owns = FALSE]
            /\ dec_fault' = dec_fault
  /\ UNCHANGED <<pipe_vars, facade_vars, send_eos_, got_eos_, status_, event_queue_,
                 event_cond_, eos_cond_, eos_called>>

\* a decoder that was created and that nothing has used yet
DecoderAtRest == InitDecode(TRUE)

\* ------------------------------------------------------------ specification
\* every request comes from the session that created the Executor
OneSession == \A r \in Requests : session_priority[r] = 0

\* every request is made by the same thread
OneClient == cl = ClientsOf(TRUE)

\* the server with a pool of one worker
Init == InitPipe(1) /\ InitFacade /\ DecoderAtRest /\ OneSession /\ OneClient

\* the running server: clients, cache, dispatch loop and engine
Next ==
  \/ \E r \in Requests : Call(r)
  \/ \E r \in Requests : WaitIfFullWake(r)
  \/ \E r \in Requests : WaitIfFullTimeout(r)
  \/ \E r \in Requests : Send(r)
  \/ \E r \in Requests : EnqueueStatic(r)
  \/ \E r \in Requests : EnqueueDynamic(r)
  \/ BatcherTimeout
  \/ \E r \in Requests : RequestSyncDone(r)
  \/ \E r \in Requests : RequestSyncTimeout(r)
  \/ \E r \in Requests : RequestSyncDiscard(r)
  \/ \E r \in Requests : DiscardTask(r)
  \/ Pop
  \/ Dispatch
  \/ \E k \in Workers : TakeTask(k)
  \/ \E k \in Workers : Lock(k)
  \/ \E k \in Workers : Process(k)
  \/ \E k \in Workers : Transmit(k)
  \/ \E k \in Workers : ReportDesc(k)
  \/ \E k \in Workers : Callback(k)
  \/ \E k \in Workers : FailedEnd(k)
  \/ \E k \in Workers : DoneNotifier(k)

\* the cache between its producers and the dispatch loop while the executor
\* stops it; the packages handed out stay queued in the pool
NextCache ==
  \/ \E r \in Requests : Call(r)
  \/ \E r \in Requests : WaitIfFullWake(r)
  \/ \E r \in Requests : WaitIfFullTimeout(r)
  \/ \E r \in Requests : Send(r)
  \/ \E r \in Requests : EnqueueStatic(r)
  \/ \E r \in Requests : EnqueueDynamic(r)
  \/ BatcherTimeout
  \/ \E r \in Requests : RequestSyncTimeout(r)
  \/ \E r \in Requests : RequestSyncDiscard(r)
  \/ \E r \in Requests : DiscardTask(r)
  \/ Pop
  \/ Dispatch
  \/ Stop
  \/ StopEmit

\* the facade: threads creating and destroying sessions
NextFacade ==
  \/ \E t \in Threads : CreateSession(t)
  \/ \E t \in Threads : LockExecutorMap(t)
  \/ \E t \in Threads : LockTp(t)
  \/ \E t \in Threads : CreateExecutor(t)
  \/ \E t \in Threads : GrowPool(t)
  \/ \E t \in Threads : Link(t)
  \/ \E t \in Threads : DestroySession(t)
  \/ \E t \in Threads : ExistExecutor(t)
  \/ \E t \in Threads : CheckAndDestroyExecutor(t)
  \/ \E t \in Threads : DeleteExecutor(t)
  \/ \E t \in Threads : ShrinkPool(t)
  \/ WorkerExit

vars == <<pipe_vars, facade_vars, dec_vars>>

Spec == Init /\ [][Next]_vars

SpecCache == Init /\ [][NextCache]_vars

\* the facade of a server whose pipeline is at rest
InitServer == Init /\ strategy = "STATIC" /\ observer

SpecFacade == InitServer /\ [][NextFacade]_vars

\* an asynchronous session on a STATIC cache whose requests are never
\* discarded, served by a pool of NumWorkers workers
InitOrder ==
  /\ InitPipe(NumWorkers) /\ InitFacade /\ DecoderAtRest /\ OneSession /\ OneClient
  /\ ~sync_link /\ strategy = "STATIC"

NextOrder ==
  \/ \E r \in Requests : Call(r)
  \/ \E r \in Requests : WaitIfFullWake(r)
  \/ \E r \in Requests : WaitIfFullTimeout(r)
  \/ \E r \in Requests : Send(r)
  \/ \E r \in Requests : EnqueueStatic(r)
  \/ Pop
  \/ Dispatch
  \/ \E k \in Workers : TakeTask(k)
  \/ \E k \in Workers : Lock(k)
  \/ \E k \in Workers : Process(k)
  \/ \E k \in Workers : Transmit(k)
  \/ \E k \in Workers : ReportDesc(k)
  \/ \E k \in Workers : Callback(k)
  \/ \E k \in Workers : FailedEnd(k)
  \/ \E k \in Workers : DoneNotifier(k)

SpecOrder == InitOrder /\ [][NextOrder]_vars

\* the cache of an Executor shared by sessions of any priorities
InitPriority == InitPipe(1) /\ InitFacade /\ DecoderAtRest /\ OneClient

\* the running cache of an asynchronous session with a producer thread for
\* each request
InitProducers ==
  InitPipe(1) /\ InitFacade /\ DecoderAtRest /\ OneSession /\ cl = ClientsOf(FALSE) /\ ~sync_link

NextProducers ==
  \/ \E r \in Requests : Call(r)
  \/ \E r \in Requests : WaitIfFullWake(r)
  \/ \E r \in Requests : WaitIfFullTimeout(r)
  \/ \E r \in Requests : Send(r)
  \/ \E r \in Requests : EnqueueStatic(r)
  \/ \E r \in Requests : EnqueueDynamic(r)
  \/ BatcherTimeout
  \/ \E r \in Requests : DiscardTask(r)
  \/ Pop
  \/ Dispatch

SpecProducers == InitProducers /\ [][NextProducers]_vars

SpecPriority == InitPriority /\ [][NextCache]_vars

\* the running STATIC cache of an asynchronous session: a first request, then
\* a producer thread for each of the others, and the dispatch thread
InitWake ==
  /\ InitPipe(1) /\ InitFacade /\ DecoderAtRest /\ OneSession /\ cl = ProducersBehindFirst
  /\ ~sync_link /\ strategy = "STATIC"

NextWake ==
  \/ \E r \in Requests : Call(r)
  \/ \E r \in Requests : WaitIfFullWake(r)
  \/ \E r \in Requests : WaitIfFullRecheck(r)
  \/ \E r \in Requests : WaitIfFullTimeout(r)
  \/ \E r \in Requests : Send(r)
  \/ \E r \in Requests : EnqueueStatic(r)
  \/ PopWait
  \/ Pop
  \/ Dispatch

\* every thread that can run does run: a producer past its wait sends and
\* enqueues, a notified waiter wakes, a timed wait expires, and the dispatch
\* thread pops when it is not blocked or has been notified; nothing makes a
\* client call, and no wake-up comes without a notification
FairWake ==
  /\ \A r \in Requests :
       /\ WF_vars(WaitIfFullWake(r) /\ r \in cache_cond_)
       /\ WF_vars(WaitIfFullRecheck(r))
       /\ WF_vars(WaitIfFullTimeout(r))
       /\ WF_vars(Send(r))
       /\ WF_vars(EnqueueStatic(r))
  /\ WF_vars(PopWait)
  /\ WF_vars(Pop /\ (disp.pc = "pop" \/ DispatchThread \in cache_cond_))
  /\ WF_vars(Dispatch)

SpecWake == InitWake /\ [][NextWake]_vars /\ FairWake

\* the cache between its producers and the dispatch thread while the executor
\* stops it, with Pop's wait in its steps
NextStopping ==
  \/ \E r \in Requests : Call(r)
  \/ \E r \in Requests : WaitIfFullWake(r)
  \/ \E r \in Requests : WaitIfFullTimeout(r)
  \/ \E r \in Requests : Send(r)
  \/ \E r \in Requests : EnqueueStatic(r)
  \/ \E r \in Requests : EnqueueDynamic(r)
  \/ BatcherTimeout
  \/ \E r \in Requests : RequestSyncTimeout(r)
  \/ \E r \in Requests : RequestSyncDiscard(r)
  \/ \E r \in Requests : DiscardTask(r)
  \/ PopPredicate
  \/ PopBlock
  \/ Pop
  \/ Dispatch
  \/ Stop
  \/ StopEmit

\* every thread that can run does run; the dispatch thread blocked in its wait
\* runs when it has been notified; nothing makes a client call or the
\* executor stop, and no wake-up comes without a notification
FairStopping ==
  /\ \A r \in Requests :
       /\ WF_vars(WaitIfFullWake(r) /\ r \in cache_cond_)
       /\ WF_vars(WaitIfFullTimeout(r))
       /\ WF_vars(Send(r))
       /\ WF_vars(EnqueueStatic(r))
       /\ WF_vars(EnqueueDynamic(r))
  /\ WF_vars(BatcherTimeout)
  /\ WF_vars(PopPredicate)
  /\ WF_vars(PopBlock)
  /\ WF_vars(Pop /\ (disp.pc = "pop" \/ DispatchThread \in cache_cond_))
  /\ WF_vars(Dispatch)
  /\ WF_vars(StopEmit)

SpecStopping == Init /\ [][NextStopping]_vars /\ FairStopping

\* a decoder, from the end of EasyDecode's constructor on, beside a server at
\* rest: created, or deleted at once by the constructor whose Init* threw
InitDecoder ==
  /\ InitPipe(1) /\ InitFacade /\ OneSession /\ OneClient
  /\ strategy = "STATIC" /\ observer
  /\ \E created \in BOOLEAN : InitDecode(created)

\* the decoder: its owner's calls and destructor, the event loop and the codec
NextDecode ==
  \/ \E type \in DecEvents : ReceiveEvent(type)
  \/ LoopTop
  \/ LoopPredicate
  \/ LoopBlock
  \/ LoopWake
  \/ LoopTake
  \/ ReceiveEOS
  \/ \E t \in DecThreads : AbortCheck(t)
  \/ \E t \in DecThreads : AbortClear(t)
  \/ \E t \in DecThreads : GotEosLock(t)
  \/ \E t \in DecThreads : GotEosSet(t)
  \/ PauseResume
  \/ \E direct, eos \in BOOLEAN : SendData(direct, eos)
  \/ CallFeedEos
  \/ FeedEos
  \/ CallAbort
  \/ Destroy
  \/ DtorLock
  \/ DtorCheck
  \/ DtorOwns
  \/ DtorGotEos
  \/ DtorBlock
  \/ DtorWake
  \/ DtorNotify
  \/ DtorJoin

SpecDecode == InitDecoder /\ [][NextDecode]_vars

\* every thread that can run does; the codec answers an EOS input with its EOS
\* event; a blocked wait is sure to wake only when it was notified; the owner
\* is free to make no further call and the codec to report no error
FairDecode ==
  /\ WF_vars(ReceiveEvent("EOS"))
  /\ WF_vars(LoopTop)
  /\ WF_vars(LoopPredicate)
  /\ WF_vars(LoopBlock)
  /\ WF_vars(LoopWake /\ event_cond_)
  /\ WF_vars(LoopTake)
  /\ WF_vars(ReceiveEOS)
  /\ \A t \in DecThreads :
       /\ WF_vars(AbortCheck(t))
       /\ WF_vars(AbortClear(t))
       /\ WF_vars(GotEosLock(t))
       /\ WF_vars(GotEosSet(t))
  /\ WF_vars(FeedEos)
  /\ WF_vars(DtorLock)
  /\ WF_vars(DtorCheck)
  /\ WF_vars(DtorOwns)
  /\ WF_vars(DtorGotEos)
  /\ WF_vars(DtorBlock)
  /\ WF_vars(DtorWake /\ eos_cond_)
  /\ WF_vars(DtorNotify)
  /\ WF_vars(DtorJoin)

SpecDestroy == InitDecoder /\ [][NextDecode]_vars /\ FairDecode

\* ------------------------------------------------------------------ claims
\* nothing is queued, held by the dispatch loop or running in the engine
PipelineIdle ==
  /\ cache_ = <<>>
  /\ batcher_ = <<>>
  /\ tp_ = <<>>
  /\ disp.pc # "dispatch"
  /\ \A k \in Workers : wk[k].pc \in {"idle", "off"}
  /\ \A r \in Requests : cl[r].pc # "enqueue"

InCache(r) ==
  \/ \E i \in 1..Len(cache_) : \E j \in 1..Len(cache_[i].data) : cache_[i].data[j].rid = r
  \/ \E j \in 1..Len(batcher_) : batcher_[j].rid = r

\* C1: every submitted request gets its terminal callback exactly once. Stated
\* in its weakest reading: once the pipeline is idle every control is complete
\* (no report is still due), no response function ran twice, and the response
\* function of a request that was never discarded ran once.
C1_ExactlyOneTerminalCallback ==
  PipelineIdle =>
    \A r \in Requests :
      ctrl[r].alloc =>
        /\ ctrl[r].wait_num = 0
        /\ ctrl[r].fired <= 1
        /\ ~ctrl[r].discarded => ctrl[r].fired = 1

\* C2 as claimed: a package that Pop returned and the dispatch loop is about to
\* hand to an engine holds no item whose control is discarded.
C2_NoDiscardedItemDispatched ==
  disp.pc = "dispatch" =>
    \A i \in 1..Len(disp.pack.descs) : ~IsDiscarded(ctrl, disp.pack.descs[i].rid)

\* C2 amended: the package Pop returns holds no item whose control was
\* discarded before Pop took cache_mutex_ and checked the head package.
C2_PopReturnsItemsLiveAtCheck ==
  [][(disp.pc = "pop" /\ disp'.pc = "dispatch") =>
       \A i \in 1..Len(disp'.pack.descs) : ~IsDiscarded(ctrl, disp'.pack.descs[i].rid)]_vars

\* a sweep reported every item of a discarded request and Pop returned the
\* package that survived it
C2_Witness ==
  /\ disp.pc = "dispatch"
  /\ \E r \in Requests : ctrl[r].discarded /\ ctrl[r].wait_num = 0 /\ tp_ = <<>>

\* C3: Pop returns null only when the cache is stopped and its queue is empty.
C3_PopNullOnlyWhenStopped ==
  [][(disp.pc = "pop" /\ disp'.pc = "exit") => (~running_ /\ cache_ = <<>>)]_vars

\* C4: once Stop has returned and Pop has returned null, no item whose Push
\* returned true before Stop is left in the cache or the batcher. Stated for
\* runs in which no request is discarded, so that no sweep takes an item.
C4_StoppedCacheDrains ==
  (disp.pc = "exit" /\ stop_pc = "done" /\ \A r \in Requests : ~ctrl[r].discarded) =>
    \A r \in Requests : cl[r].early => ~InCache(r)

\* C5: every package returned by Pop carries at most batch_size descs.
C5_PackageWithinBatchSize ==
  disp.pc = "dispatch" => Len(disp.pack.descs) <= BatchSize

\* C6: every package handed to an engine decrements task_num_ once, so the
\* counter is back at zero when the pipeline is idle.
C6_TaskNumReturnsToZero ==
  PipelineIdle => \A e \in Engines : task_num_[e] = 0

\* C9: a RequestSync that timed out returned true with *status = TIMEOUT, its
\* control is discarded, and no callback writes *status after the return.
C9_TimeoutIsFinal ==
  \A r \in Requests :
    cl[r].how = "timeout" =>
      ctrl[r].discarded /\ cl[r].ret = "true" /\ cl[r].status = "TIMEOUT" /\ ~cl[r].late

\* what both forms of C10 say of a call that gave up before Send
GaveUpCleanly(r) ==
  cl[r].how \in {"busy", "busy_not_full", "short"} =>
    /\ cl[r].ret = "false"
    /\ sync_link => cl[r].status = "TIMEOUT"
    /\ cl[r].how = "short" => sync_link
    /\ ~ctrl[r].alloc
    /\ ~InCache(r)

\* C10 as claimed: WaitIfFull returns false only with timeout > 0 and the cache
\* at or above capacity during the whole wait.
C10_FullForTheWholeWait ==
  \A r \in Requests :
    /\ cl[r].how \in {"busy", "busy_not_full"} => cl[r].timeout > 0 /\ ~cl[r].dipped
    /\ GaveUpCleanly(r)

\* C10 amended: WaitIfFull returns false only with timeout > 0 and the cache at
\* or above capacity at the moment the wait expires.
C10_FullWhenTheWaitExpires ==
  \A r \in Requests :
    /\ cl[r].how \in {"busy", "busy_not_full"} => cl[r].timeout > 0 /\ cl[r].how = "busy"
    /\ GaveUpCleanly(r)

\* a call that gave up on a full cache
C10_Witness ==
  \E r \in Requests : cl[r].how = "busy" /\ cl[r].ret = "false" /\ cl[r].timeout > 0

\* no call of the facade is in progress
FacadeIdle == \A t \in Threads : th[t].pc = "idle"

LiveSessions == {s \in SessionIds : sessions[s].state = "live"}

\* C7: two live sessions created with the same signature reference the same
\* Executor. (executor_map_ is keyed by the signature's name, so it never holds
\* two Executors for one signature.)
C7_SameSignatureSharesExecutor ==
  \A s, u \in LiveSessions :
    sessions[s].desc = sessions[u].desc => sessions[s].executor = sessions[u].executor

\* C8: between calls, an Executor is in executor_map_ exactly if some live
\* session references it, and an Executor in the map is alive.
C8_InMapIffLinked ==
  (FacadeIdle /\ ~aborted) =>
    \A e \in ExecutorIds :
      /\ (\E n \in Names : executor_map_[n] = e)
            <=> (\E s \in LiveSessions : sessions[s].executor = e)
      /\ (\E n \in Names : executor_map_[n] = e) => executors[e].state = "live"

\* C11: every Push is preceded by a WaitIfFull that returned true, and the
\* cache never queues more than cache_capacity_ packages.
C11_CacheWithinCapacity ==
  Len(cache_) <= Capacity

\* C12: of two requests accepted in that order on one session, neither
\* discarded, the later one's terminal callback does not fire before the
\* earlier one's.
C12_CallbacksInSubmissionOrder ==
  \A r, q \in Requests :
    (r < q /\ cl[r].ret = "true" /\ ctrl[q].fired > 0) => ctrl[r].fired > 0

\* priority p is higher than priority q: the smaller value is the higher one
HigherPriority(p, q) == p < q

\* request q has a package in the queue c_
Queued(c_, q) ==
  \E i \in 1..Len(c_) : \E j \in 1..Len(c_[i].data) : c_[i].data[j].rid = q

\* C13: Pop never returns a package of a request while a request submitted
\* later with a higher priority is resident in the cache and left behind.
C13_HigherPriorityPoppedFirst ==
  [][(disp.pc = "pop" /\ disp'.pc = "dispatch") =>
       \A i \in 1..Len(disp'.pack.data) : \A q \in Requests :
         LET r == disp'.pack.data[i].rid
         IN ~(r < q /\ Queued(cache_, q) /\ Queued(cache_', q)
                /\ HigherPriority(session_priority[q], session_priority[r]))]_vars

\* C14: a TaskNode never pushes to its down node a package all of whose
\* controls are discarded.
C14_DiscardedPackageNotForwarded ==
  [][\A k \in Workers :
       (wk[k].pc = "transmit" /\ wk'[k].pc = "idle") =>
         \E i \in 1..Len(wk[k].pack.descs) :
           ~IsDiscarded(ctrl, wk[k].pack.descs[i].rid)]_vars

\* C15: when RequestSync's callback delivered SUCCESS for a request of K items,
\* the output holds K items and item i is the result of input item i.
C15_OutputMatchesInput ==
  \A r \in Requests :
    (sync_link /\ ctrl[r].done /\ ctrl[r].status = "SUCCESS") =>
      \A i \in 1..Len(ctrl[r].output) :
        ctrl[r].output[i] = [state |-> "item", rid |-> r, idx |-> i - 1]

\* C16: once every session that was created has been destroyed and its
\* Executor deleted, the pool is at most 2 * engine_num threads larger than
\* the empty pool the server started with
C16_PoolBackWithinTwicePerEngine ==
  ( /\ FacadeIdle
    /\ ~aborted
    /\ LiveSessions = {}
    /\ \E s \in SessionIds : sessions[s].state = "deleted"
    /\ \A e \in ExecutorIds : executors[e].state # "live" )
  => tp_size <= 2 * EngineNum

\* C17: the session is a sync link exactly when it was created without an
\* Observer, and a call of the other kind's API (Request on a session without
\* Observer, RequestSync on one with an Observer) has returned false at once:
\* it never waited on the cache, Session.Send made no RequestControl for it
\* and *status is as the caller left it
C17_WrongApiRefused ==
  /\ sync_link = ~observer
  /\ \A r \in Requests :
       ((cl[r].api = "Request" /\ ~observer) \/ (cl[r].api = "RequestSync" /\ observer))
         => /\ cl[r].pc = "returned"
            /\ cl[r].ret = "false"
            /\ cl[r].how = "refused"
            /\ cl[r].status = "NONE"
            /\ ~cl[r].dipped
            /\ ~ctrl[r].alloc

\* a RequestSync on a session with an Observer was refused while the cache was
\* full, after a Request on the same session was accepted
C17_Witness ==
  /\ observer
  /\ CacheFull(cache_)
  /\ \E r, q \in Requests :
       /\ cl[q].api = "Request" /\ cl[q].ret = "true"
       /\ cl[r].api = "RequestSync" /\ cl[r].how = "refused"

\* C18: no two workers are inside Process of the same processor; the worker
\* inside Process holds that processor's lock, and a worker that is forwarding
\* the package, reporting ProcessFailed or ProcessDone, or running a response
\* holds no processor lock
C18_ProcessorMutualExclusion ==
  /\ \A k, j \in Workers :
       (k # j /\ wk[k].pc = "process" /\ wk[j].pc = "process")
         => <<wk[k].eng, wk[k].node>> # <<wk[j].eng, wk[j].node>>
  /\ \A k \in Workers :
       wk[k].pc = "process" => proc_lock[wk[k].eng][wk[k].node] = k
  /\ \A k \in Workers :
       wk[k].pc \in {"transmit", "failed", "tail", "callback"}
         => \A e \in Engines, n \in Nodes : proc_lock[e][n] # k

\* one worker is inside Process while another waits for the same processor
C18_Witness ==
  \E k, j \in Workers :
    /\ k # j
    /\ wk[k].pc = "process"
    /\ wk[j].pc = "lock"
    /\ <<wk[k].eng, wk[k].node>> = <<wk[j].eng, wk[j].node>>

\* C19: when Process returns a status other than SUCCESS the worker pushes
\* nothing to the pool and walks the descs of the package from the first to the
\* last, one ProcessFailed with that status for each (the control counts one
\* report, takes the status if it is still waited for, and gets no result
\* written), then returns
C19_FailureReportedOncePerDesc ==
  [][\A k \in Workers :
       LET w == wk[k]
           v == wk'[k]
       IN /\ (w.pc = "process" /\ v.s # "SUCCESS")
               => (v.pc = "failed" /\ v.idx = 1 /\ tp_' = tp_ /\ ctrl' = ctrl)
          /\ (w.pc = "failed" /\ v # w)
               => /\ tp_' = tp_
                  /\ IF w.idx <= Len(w.pack.descs)
                     THEN LET r == w.pack.descs[w.idx].rid
                          IN /\ v.idx = w.idx + 1
                             /\ v.s = w.s /\ v.pack = w.pack
                             /\ v.pc \in {"failed", "callback"} /\ v.back = "failed"
                             /\ \A q \in Requests \ {r} : ctrl'[q] = ctrl[q]
                             /\ ctrl'[r].wait_num = Report(ctrl[r], 1, w.s).wait_num
                             /\ ctrl'[r].status = Report(ctrl[r], 1, w.s).status
                             /\ ctrl'[r].output = ctrl[r].output
                     ELSE v = IdleWorker /\ ctrl' = ctrl
          /\ (w.pc = "callback" /\ w.back = "failed" /\ v # w)
               => (v.pc = "failed" /\ v.idx = w.idx /\ v.s = w.s /\ v.pack = w.pack
                   /\ tp_' = tp_)]_vars

\* the first stage failed on a package of two descs and both were reported:
\* their controls carry the status Process returned
C19_Witness ==
  \E k \in Workers :
    /\ wk[k].pc = "failed"
    /\ wk[k].node < NumNodes
    /\ Len(wk[k].pack.descs) >= 2
    /\ wk[k].idx = Len(wk[k].pack.descs) + 1
    /\ \A i \in 1..Len(wk[k].pack.descs) :
         ctrl[wk[k].pack.descs[i].rid].status = wk[k].s

\* C20: on success the tail worker walks the descs of the package from the
\* first to the last, one ProcessDone(SUCCESS, data[i], descs[i].index) for
\* each, and after the last one calls the done notifier once, which takes one
\* task off the engine's count; a worker forwarding the package to the down
\* node reports to no control and calls no notifier
C20_TailReportsEveryDescThenNotifies ==
  [][\A k \in Workers :
       LET w == wk[k]
           v == wk'[k]
       IN /\ (w.pc = "tail" /\ v # w)
               => IF w.idx <= Len(w.pack.descs)
                  THEN LET r == w.pack.descs[w.idx].rid
                       IN /\ w.idx <= Len(w.pack.data)
                          /\ v.idx = w.idx + 1
                          /\ v.pack = w.pack
                          /\ v.pc \in {"tail", "callback"} /\ v.back = "tail"
                          /\ task_num_' = task_num_
                          /\ \A q \in Requests \ {r} : ctrl'[q] = ctrl[q]
                          /\ LET done == ProcessDone(ctrl[r], ItemSlot(w.pack.data[w.idx]),
                                                     w.pack.descs[w.idx].index)
                             IN /\ ctrl'[r].wait_num = done.wait_num
                                /\ ctrl'[r].status = done.status
                                /\ ctrl'[r].output = done.output
                  ELSE /\ v = IdleWorker
                       /\ ctrl' = ctrl
                       /\ task_num_' = [task_num_ EXCEPT ![w.eng] = @ - 1]
          /\ (w.pc = "callback" /\ w.back = "tail" /\ v # w)
               => (v.pc = "tail" /\ v.idx = w.idx /\ v.pack = w.pack
                   /\ task_num_' = task_num_)
          /\ (w.pc = "transmit" /\ v # w)
               => (ctrl' = ctrl /\ task_num_' = task_num_)]_vars

\* Priority::Next applied k times
RECURSIVE PriorityNextTimes(_, _)
PriorityNextTimes(p, k) == IF k = 0 THEN p ELSE PriorityNext(PriorityNextTimes(p, k - 1))

\* C21: a worker whose Process succeeded at a node that is not the last pushes
\* the package once, to the next node of the same engine, with its priority
\* advanced by one Priority::Next, and is done with it; a package enters the
\* pool only at the head node (from the dispatch loop) or this way, so every
\* queued task of node n carries the priority the cache gave it advanced n - 1
\* times
C21_ForwardedOnceToTheNextNode ==
  [][/\ \A k \in Workers :
          LET w == wk[k]
              v == wk'[k]
          IN /\ (w.pc = "process" /\ v.pc \notin {"process", "failed"})
                  => (v.pc = (IF w.node < NumNodes THEN "transmit" ELSE "tail")
                      /\ v.pack = w.pack /\ v.node = w.node /\ v.eng = w.eng
                      /\ tp_' = tp_)
             /\ (w.pc = "transmit" /\ v # w)
                  => /\ w.node < NumNodes
                     /\ v = IdleWorker
                     /\ tp_' = Append(tp_, [pack |-> [w.pack EXCEPT
                                                        !.priority = PriorityNext(@)],
                                            eng |-> w.eng,
                                            node |-> w.node + 1])
     /\ Len(tp_') > Len(tp_)
          => \/ disp.pc = "dispatch" /\ tp_'[Len(tp_')].node = 1
             \/ \E k \in Workers : wk[k].pc = "transmit" /\ wk'[k] # wk[k]
     /\ \A i \in 1..Len(tp_') :
          LET task == tp_'[i]
          IN /\ task.node \in Nodes
             /\ \E p0 \in {DefaultPriority} \cup
                           {PriorityGet(-ctrl[r].request_id) : r \in Requests} :
                  task.pack.priority = PriorityNextTimes(p0, task.node - 1)]_vars

\* the task of the second node is queued with the cache's priority advanced
\* once
C21_Witness ==
  \E i \in 1..Len(tp_) :
    /\ tp_[i].node = 2
    /\ tp_[i].pack.priority =
         PriorityNext(PriorityGet(-ctrl[tp_[i].pack.descs[1].rid].request_id))
    /\ tp_[i].pack.priority # PriorityGet(-ctrl[tp_[i].pack.descs[1].rid].request_id)

\* package a was handed to the head node before package b: Enqueue, Pop and
\* the dispatch loop keep the order of the requests and of the items of one
\* request
DispatchedBefore(a, b) ==
  \/ a.data[1].rid < b.data[1].rid
  \/ a.data[1].rid = b.data[1].rid /\ a.data[1].idx < b.data[1].idx

\* C22: at the head stage of an engine no package is inside Process while a
\* package that was submitted to the stage before it has not started Process
C22_HeadStageFifo ==
  \A j, k \in Workers :
    ~ ( /\ wk[j].pc = "lock" /\ wk[k].pc = "process"
        /\ wk[j].node = 1 /\ wk[k].node = 1
        /\ wk[j].eng = wk[k].eng
        /\ DispatchedBefore(wk[j].pack, wk[k].pack) )

\* C23: every package a STATIC Push of n separate items appends goes to the
\* back of the queue and holds the next BatchSize items of the input, or the
\* items left if fewer, with their descs, data_num equal to its item count and
\* priority Get(-request_id); the packages before it were full, and the Push
\* ends with the package that takes the last item: ceil(n / BatchSize) packages
\* whose items concatenate to the input
C23_StaticPushSplitsInOrder ==
  [][\A r \in Requests :
       ( /\ strategy = "STATIC"
         /\ cl[r].pc = "enqueue"
         /\ cl[r].data_size = cl[r].data_num
         /\ cl'[r] # cl[r] )
       => LET n == cl[r].data_num
              in_data == InputData(r, n)
              moved == n - Len(cl[r].rest)
              m == Min(BatchSize, n - moved)
          IN /\ moved % BatchSize = 0
             /\ m >= 1
             /\ cache_' = Append(cache_,
                                 [data |-> SubSeq(in_data, moved + 1, moved + m),
                                  descs |-> [i \in 1..m |->
                                               [rid |-> r, index |-> moved + i - 1]],
                                  data_num |-> m,
                                  priority |-> PriorityGet(-ctrl[r].request_id)])
             /\ cl'[r].rest = SubSeq(in_data, moved + m + 1, n)
             /\ (cl'[r].pc = "enqueue") <=> (moved + m < n)]_vars

\* a Push of BatchSize + 1 items is over and its two packages, a full one and
\* one of a single item, are queued
C23_Witness ==
  /\ strategy = "STATIC"
  /\ Len(cache_) = 2
  /\ cache_[1].data = SubSeq(InputData(cache_[1].data[1].rid, BatchSize + 1), 1, BatchSize)
  /\ cache_[2].data = SubSeq(InputData(cache_[1].data[1].rid, BatchSize + 1),
                             BatchSize + 1, BatchSize + 1)
  /\ cl[cache_[1].data[1].rid].pc # "enqueue"

\* the items of a queue in order, each named by its request and its position
\* in the request
ItemIds(items) == [i \in 1..Len(items) |-> <<items[i].rid, items[i].idx>>]

\* the queue as Pop's sweep left it, before Pop took the head package off
AfterSweep == IF disp'.pc = "dispatch" THEN <<disp'.pack>> \o cache_' ELSE cache_'

\* C24: when Pop on a DYNAMIC cache finds a discarded item in the head
\* package, the queue after the sweep holds the items of the whole queue whose
\* control is not discarded, in their order, in packages of BatchSize items
\* (the last one may hold fewer, none is empty), and every control has one
\* ProcessFailed(SUCCESS) counted for each of its discarded items: its status
\* is untouched
C24_DynamicSweepRebatchesLiveItems ==
  [][( /\ strategy = "DYNAMIC"
       /\ disp.pc = "pop" /\ disp'.pc # "pop"
       /\ cache_ # <<>>
       /\ \E i \in 1..Len(cache_[1].data) : ctrl[cache_[1].data[i].rid].discarded )
     => LET items == Flatten(cache_)
            live == SelectSeq(items, LAMBDA it : ~ctrl[it.rid].discarded)
            L == Len(live)
            after == AfterSweep
        IN /\ ItemIds(Flatten(after)) = ItemIds(live)
           /\ Len(after) * BatchSize >= L
           /\ (Len(after) - 1) * BatchSize < L \/ (L = 0 /\ after = <<>>)
           /\ \A i \in 1..Len(after) :
                /\ after[i].data_num = Len(after[i].data)
                /\ Len(after[i].data) = IF i < Len(after) THEN BatchSize
                                        ELSE L - (Len(after) - 1) * BatchSize
           /\ \A r \in Requests :
                LET gone == Cardinality({i \in 1..Len(items) :
                                           items[i].rid = r /\ ctrl[r].discarded})
                IN /\ ctrl'[r].wait_num = ctrl[r].wait_num - gone
                   /\ ctrl'[r].status = ctrl[r].status]_vars

\* a sweep dropped the discarded item of request 1 from the head package and
\* moved the three items of request 2 up: two in the package Pop returned, one
\* left in the queue
C24_Witness ==
  /\ strategy = "DYNAMIC"
  /\ disp.pc = "dispatch"
  /\ ItemIds(disp.pack.data) = <<(<<2, 0>>), (<<2, 1>>)>>
  /\ Len(cache_) = 1
  /\ ItemIds(cache_[1].data) = <<(<<2, 2>>)>>
  /\ ctrl[1].alloc /\ ctrl[1].discarded /\ ctrl[1].wait_num = 0

\* C25: when Pop on a STATIC cache finds a discarded item in the head package,
\* the queue after the sweep is the queue without the packages that hold a
\* discarded item: the others are as they were and in their order (Pop then
\* takes the first of them and empties its items' descs), and every control
\* has one ProcessFailed(SUCCESS) counted for each item of its dropped
\* packages: its status is untouched
C25_StaticSweepDropsWholePackages ==
  [][( /\ strategy = "STATIC"
       /\ disp.pc = "pop" /\ disp'.pc # "pop"
       /\ cache_ # <<>>
       /\ \E i \in 1..Len(cache_[1].data) : ctrl[cache_[1].data[i].rid].discarded )
     => LET Dropped(p) == \E i \in 1..Len(p.data) : ctrl[p.data[i].rid].discarded
            survivors == SelectSeq(cache_, LAMBDA p : ~Dropped(p))
            items == Flatten(SelectSeq(cache_, Dropped))
        IN /\ IF survivors = <<>>
              THEN disp'.pc = "exit" /\ cache_' = <<>>
              ELSE /\ disp'.pc = "dispatch"
                   /\ cache_' = Tail(survivors)
                   /\ ItemIds(disp'.pack.data) = ItemIds(survivors[1].data)
                   /\ disp'.pack.descs = survivors[1].descs
                   /\ disp'.pack.data_num = survivors[1].data_num
                   /\ disp'.pack.priority = survivors[1].priority
           /\ \A r \in Requests :
                LET gone == Cardinality({i \in 1..Len(items) : items[i].rid = r})
                IN /\ ctrl'[r].wait_num = ctrl[r].wait_num - gone
                   /\ ctrl'[r].status = ctrl[r].status]_vars

\* a sweep dropped both packages of the discarded request 1; Pop returned the
\* first package of request 2 and left its second one queued
C25_Witness ==
  /\ strategy = "STATIC"
  /\ disp.pc = "dispatch"
  /\ disp.pack.descs[1].rid = 2
  /\ Len(cache_) = 1 /\ cache_[1].data[1].rid = 2
  /\ ctrl[1].discarded /\ ctrl[1].alloc /\ ctrl[1].wait_num = 0
  /\ Len(ctrl[1].output) = MaxItems

\* C26: the package a DYNAMIC cache returned from Pop carries the priority
\* Get(-request_id) of its first item's request
C26_DynamicPopPriority ==
  (strategy = "DYNAMIC" /\ disp.pc = "dispatch")
    => disp.pack.priority = PriorityGet(-ctrl[disp.pack.descs[1].rid].request_id)

\* the package left the cache through Pop: its items have given up their
\* descs and the package holds one desc for each of them, in their order (for
\* a continuous payload, one for each of its data_num logical items)
DescsMigrated(pack) ==
  /\ \A i \in 1..Len(pack.data) : ~pack.data[i].desc
  /\ Len(pack.descs) = pack.data_num
  /\ IF Len(pack.data) = pack.data_num
     THEN \A i \in 1..Len(pack.data) :
            pack.descs[i] = [rid |-> pack.data[i].rid, index |-> pack.data[i].idx]
     ELSE /\ Len(pack.data) = 1
          /\ \A i \in 1..pack.data_num :
               pack.descs[i] = [rid |-> pack.data[1].rid, index |-> i - 1]

\* C27: every item waiting in the batcher or in a queued package holds its
\* desc (and a queued DYNAMIC package holds none yet, a STATIC one the copies
\* made at Enqueue); every package Pop returned, whether held by the dispatch
\* loop, queued in the pool or at a worker, has its descs in the package and
\* none left in its items
C27_DescsMigrateOnceAtPop ==
  /\ \A i \in 1..Len(batcher_) : batcher_[i].desc
  /\ \A n \in 1..Len(cache_) :
       /\ \A i \in 1..Len(cache_[n].data) : cache_[n].data[i].desc
       /\ Len(cache_[n].descs) = IF strategy = "DYNAMIC" THEN 0 ELSE cache_[n].data_num
  /\ disp.pc = "dispatch" => DescsMigrated(disp.pack)
  /\ \A n \in 1..Len(tp_) : DescsMigrated(tp_[n].pack)
  /\ \A k \in Workers : wk[k].pc \notin {"idle", "off"} => DescsMigrated(wk[k].pack)

\* Pop returned a DYNAMIC package with items of two requests while another
\* package is still queued
C27_Witness ==
  /\ strategy = "DYNAMIC"
  /\ disp.pc = "dispatch"
  /\ Len(disp.pack.descs) = 2
  /\ disp.pack.descs[1].rid # disp.pack.descs[2].rid
  /\ cache_ # <<>>

\* C28: no thread holds executor_map_mutex_ and tp_mutex_ together; a thread
\* holds a facade mutex only inside the section that locked it, so a thread
\* that is about to lock one holds neither and the thread deleting an Executor
\* holds neither: the holder of a mutex another thread waits for is never
\* itself waiting, and the facade mutexes cannot deadlock
C28_FacadeLocksNeverNested ==
  \A t \in Threads :
    /\ ~(executor_map_mutex_ = t /\ tp_mutex_ = t)
    /\ executor_map_mutex_ = t => th[t].pc \in MapSections
    /\ tp_mutex_ = t => th[t].pc \in TpSections
    /\ th[t].pc = "delete" => (executor_map_mutex_ # t /\ tp_mutex_ # t)
    /\ (th[t].pc \in MapSections /\ executor_map_mutex_ # t) => tp_mutex_ # t
    /\ (th[t].pc \in TpSections /\ tp_mutex_ # t) => executor_map_mutex_ # t

\* one thread is inside CheckAndDestroyExecutor's section under
\* executor_map_mutex_ while another, past its own section under that mutex,
\* resizes the pool under tp_mutex_
C28_Witness ==
  \E t, u \in Threads :
    /\ t # u
    /\ executor_map_mutex_ = t /\ th[t].pc = "check"
    /\ tp_mutex_ = u /\ th[u].pc = "resize"

\* C29: a CreateSession that constructed an Executor while the pool had fewer
\* than MaxThreadNum threads leaves the pool at min(Size + 3 * engine_num,
\* MaxThreadNum), one that reused an Executor or found the pool at
\* MaxThreadNum leaves it as it was; a DestroySession that deleted an Executor
\* takes 2 * engine_num threads off only with that many idle workers and
\* otherwise leaves the pool as it was; every size the facade requests is
\* within 0..MaxThreadNum
C29_PoolSizingRule ==
  [][/\ \A t \in Threads :
          /\ (th[t].pc = "resize" /\ th'[t].pc = "link")
               => tp_size' = IF tp_size < MaxThreadNum
                             THEN Min(tp_size + 3 * th[t].engine_num, MaxThreadNum)
                             ELSE tp_size
          /\ (th[t].pc = "create_executor" /\ th'[t].pc = "link") => tp_size' = tp_size
          /\ (th[t].pc = "shrink" /\ th'[t].pc = "idle")
               => \/ tp_size' = tp_size
                  \/ /\ tp_size' = tp_size - th[t].th_num
                     /\ \E idle \in IdleNumbers : idle > th[t].th_num
      /\ tp_size' \in 0..MaxThreadNum]_vars

\* C30: whenever the dispatch thread is blocked in Pop's wait while the cache
\* is running and holds a package, Pop eventually returns a package, whatever
\* producers are blocked in WaitIfFull on the same condition variable
C30_NoLostWakeUpOnPush ==
  (disp.pc = "wait" /\ running_ /\ cache_ # <<>>) ~> (disp.pc = "dispatch")

\* C31: once Stop has been called, a dispatch thread that is in Pop's wait on
\* the empty cache, or about to block in it, eventually returns null from Pop
C31_StopWakesPop ==
  (~running_ /\ disp.pc \in {"about_to_wait", "wait"}) ~> (disp.pc = "exit")

\* C32: a Push that finds the cache not running returns false and leaves the
\* queue and the Batcher as they were, a Push that finds it running goes on to
\* Enqueue without waiting, and once Stop has returned the Batcher holds no item
C32_PushRejectedWhenStoppedBatcherEmpty ==
  /\ [][\A r \in Requests :
          (cl[r].pc = "wf_true" /\ cl'[r].pc # "wf_true")
            => /\ cl'[r].how = "stopped" => (~running_ /\ cl'[r].ret = "false"
                                             /\ cache_' = cache_ /\ batcher_' = batcher_)
               /\ cl'[r].pc = "enqueue" => running_]_vars
  /\ [](stop_pc = "done" => batcher_ = <<>>)

\* C33: every session CreateSession has linked references an Executor that is
\* alive and entered in executor_map_
C33_SessionLinkedToLiveExecutor ==
  \A s \in LiveSessions :
    /\ executors[sessions[s].executor].state = "live"
    /\ \E n \in Names : executor_map_[n] = sessions[s].executor

\* C34: every package Pop returned, whether held by the dispatch loop, queued
\* in the pool or at a worker, has at least as many data items as descs, so
\* the tail's data[idx] with idx < descs.size() is in range
C34_DataItemForEveryDesc ==
  /\ disp.pc = "dispatch" => Len(disp.pack.descs) <= Len(disp.pack.data)
  /\ \A n \in 1..Len(tp_) : Len(tp_[n].pack.descs) <= Len(tp_[n].pack.data)
  /\ \A k \in Workers :
       wk[k].pc \notin {"idle", "off"} => Len(wk[k].pack.descs) <= Len(wk[k].pack.data)

\* the items inside the cache, oldest first, and the items of the packages Pop
\* has returned, in the order of the Pops
ItemsInside == Flatten(cache_) \o batcher_
ItemsPopped ==
  Flatten([n \in 1..Len(tp_) |-> tp_[n].pack])
    \o (IF disp.pc = "dispatch" THEN disp.pack.data ELSE <<>>)

\* item a was pushed before item b (the requests are made one after the other)
PushedBefore(a, b) == a.rid < b.rid \/ (a.rid = b.rid /\ a.idx < b.idx)

InPushOrder(items) ==
  \A i, j \in 1..Len(items) : i < j => PushedBefore(items[i], items[j])

\* the items Pop has returned followed by the items still inside the cache
\* are distinct and in the order they were pushed; an item leaves the cache
\* only in a Pop, and each item a Pop takes out of the cache is either in the
\* package it returns or reported once by ProcessFailed(SUCCESS) in the
\* discard sweep, never both
ItemConservation ==
  [][/\ InPushOrder(ItemsPopped \o ItemsInside)'
     /\ \A r \in Requests :
          LET left == CountItems(ItemsInside, r) - CountItems(ItemsInside', r)
              popped == CountItems(ItemsPopped', r) - CountItems(ItemsPopped, r)
              reported == ctrl[r].wait_num - ctrl'[r].wait_num
          IN IF disp.pc \in {"pop", "wait"} /\ disp'.pc \in {"dispatch", "exit"}
             THEN /\ popped >= 0 /\ reported >= 0
                  /\ left = popped + reported
                  /\ reported > 0 => IsDiscarded(ctrl, r)
             ELSE /\ left <= 0
                  /\ popped = 0
                  /\ ctrl[r].alloc => reported = 0]_vars

\* every item inside the cache eventually leaves it
ItemsLeave ==
  \A r \in Requests :
    (CountItems(ItemsInside, r) > 0) ~> (CountItems(ItemsInside, r) = 0)

\* C35: every item Push accepted leaves the cache, and leaves it once: inside
\* one package Pop returns or through one ProcessFailed(SUCCESS) of a discard
\* sweep, never both and never twice, and the items of successive Pops are in
\* the order they were pushed
C35_EveryItemLeavesOnce == ItemConservation /\ ItemsLeave

\* C36: once the DecodeHandler destructor has started it ends: the event loop
\* exits and join returns (or the process has ended), in every fair
\* interleaving, with and without a handle and after AbortDecoder
C36_DestructorTerminates ==
  (dth["user"].pc = "d_start") ~> (dth["user"].pc = "done" \/ dec_fault)

\* C37: the destructor holds eos_mtx_ whenever it reads got_eos_, waits on
\* eos_cond_ through eos_lk or lets eos_lk release the mutex
C37_DestructorHoldsEosMutex ==
  dth["user"].pc \in {"d_got", "d_block", "d_notify", "d_join"} => eos_mtx_ = "user"

\* a step of EasyDecode::FeedData, alone or inside SendData
FeedDataStep == \E direct, eos \in BOOLEAN : SendData(direct, eos)

\* C38: the codec is fed EOS at most once, no data after it and no EOS on a
\* handle AbortDecoder cleared; a FeedEos that returns true has set send_eos_,
\* and FeedEos and FeedData with send_eos_ set return false and feed nothing
C38_EosFedOnceNothingAfter ==
  /\ [](codec.eos_fed <= 1 /\ ~codec.data_after_eos /\ ~codec.eos_to_cleared)
  /\ [][/\ (FeedEos /\ dth'["user"].ret = "true") => send_eos_'
        /\ ((FeedEos \/ FeedDataStep) /\ send_eos_) =>
             (dth'["user"].ret = "false" /\ codec' = codec)]_vars

\* C39: eos_callback is invoked at most once for a decoder, and got_eos_ never
\* goes back to false
C39_EosCallbackOnce ==
  /\ [](eos_called <= 1)
  /\ [][got_eos_ => got_eos_']_vars

====
